---- MODULE Spec2Model ----
(***************************************************************************)
(* A model of memento-mcp's KnowledgeGraphManager (KnowledgeGraphManager.ts *)
(* in src/unnamed/part_008): the file-backed fallback store, the delegation *)
(* to a StorageProvider, the embedding-job scheduling calls and the vector  *)
(* store calls made by each operation.                                      *)
(***************************************************************************)
EXTENDS Integers, Sequences, FiniteSets, TLC

\* ------------------------------------------------------------------ bounds
MaxBatch == 2
MaxVersions == 2
MaxJobs == 2
MaxAttempts == 2
Dimensions == 2
MaxTime == 3

Names == {"a", "b"}
Types == {"t", "u"}
RelTypes == {"r"}
Strengths == {1, 2}
Triples == Names \X RelTypes \X Names

VARIABLES
  cfg,      \* constructor options: storageProvider?, its optional methods?, embeddingJobManager?
  file,     \* contents of memoryFilePath: a sequence of tagged JSON lines
  pgraph,   \* the storage provider's current graph (provider mode)
  phist,    \* the provider's version histories, per entity name and relation triple
  vsReady,  \* this.vectorStore is set
  vectors,  \* ids held by the vector store
  last,     \* the last completed call: its arguments, outcome, and the store before it
  calls,    \* the calls in flight between their awaits: position, arguments, loaded graph
  base,     \* the store before the first of the calls in flight
  embedded, \* per entity name, the embedding the provider stores: the entity text it was computed from
  jobs,     \* the embedding job queue: the jobs in creation order, with status and attempts
  svc,      \* the embedding service: its configuration, the provider's response, its outcome and the vector stored
  tr,       \* the versions of one relation, the time asked about, and the versions isCurrentlyValid accepts
  factory,  \* EmbeddingServiceFactory.createFromEnvironment: process.env and the service created
  tool,     \* handleCallToolRequest / handleListToolsRequest: the request, process.env and the response
  qp,       \* QueryPreprocessor: its options, the query and the analysis returned
  gen,       \* OllamaEmbeddingService.generateEmbeddings: the texts, the requests sent, the result
  validator  \* TemporalRelationValidator: the object and the time asked about, and the answers

vars == <<cfg, file, pgraph, phist, vsReady, vectors, last, calls, base, embedded, jobs, svc, tr, factory, tool, qp, gen, validator>>

\* ----------------------------------------------------------------- helpers
Range(s) == {s[i] : i \in DOMAIN s}

SeqsUpTo(S, n) == UNION {[1..k -> S] : k \in 0..n}

\* Array.from(new Set(s)): first occurrences, in insertion order.
RECURSIVE Uniq(_)
Uniq(s) ==
  IF s = <<>> THEN <<>>
  ELSE LET r == Uniq(SubSeq(s, 1, Len(s) - 1))
           x == s[Len(s)]
       IN IF x \in Range(r) THEN r ELSE Append(r, x)

EmptyGraph == [entities |-> <<>>, relations |-> <<>>]

EntityNames(g) == {g.entities[i].name : i \in DOMAIN g.entities}

\* Array.prototype.findIndex on entity name; 0 stands for -1.
FindEntityIndex(es, name) ==
  IF \E i \in DOMAIN es : es[i].name = name
  THEN CHOOSE i \in DOMAIN es : es[i].name = name /\ \A j \in 1..(i - 1) : es[j].name # name
  ELSE 0

\* Map.get after the Map was filled in array order: the last entry with the name.
LastEntityIndex(es, name) ==
  CHOOSE i \in DOMAIN es : es[i].name = name /\ \A j \in (i + 1)..Len(es) : es[j].name # name

\* ------------------------------------------------------- file-backed store
\* { type: 'entity', ...entity }: the keys of the entity with the type key in
\* front; a key of the entity's own called type would take its place.
TagEntity(e) == e @@ [type |-> "entity"]

TagRelation(r) == r @@ [type |-> "relation"]

\* saveGraph: one JSON line per entity, then one per relation, joined by "\n".
SaveGraph(g) ==
  [i \in 1..(Len(g.entities) + Len(g.relations)) |->
     IF i <= Len(g.entities) THEN TagEntity(g.entities[i])
     ELSE TagRelation(g.relations[i - Len(g.entities)])]

\* The parsed item taken as it is.
KeepTag(item) == item

\* const { type, ...rest } = item
Untag(item) == [k \in DOMAIN item \ {"type"} |-> item[k]]

LineBodies(lines, tag) ==
  LET Has(l) == l.type = tag
      sel == SelectSeq(lines, Has)
  IN [i \in DOMAIN sel |-> Untag(sel[i])]

\* loadGraph: a missing or empty file is the empty graph; a file that parses as
\* one JSON object is a single entity or relation; otherwise line by line.
LoadGraph(f) ==
  IF f = <<>> THEN EmptyGraph
  ELSE IF Len(f) = 1 THEN
    IF f[1].type = "entity" THEN [entities |-> <<Untag(f[1])>>, relations |-> <<>>]
    ELSE IF f[1].type = "relation" THEN [entities |-> <<>>, relations |-> <<Untag(f[1])>>]
    ELSE EmptyGraph
  ELSE [entities |-> LineBodies(f, "entity"), relations |-> LineBodies(f, "relation")]

\* The graph a read sees: the provider's graph, or the parsed file.
CurrentGraph == IF cfg.provider THEN pgraph ELSE LoadGraph(file)

\* What one call did: the error it rejected with ("none": it resolved), its
\* return value, the graph it left,
\* whether saveGraph wrote the file, the scheduleEntityEmbedding calls, the
\* vector store after it and the removeVector calls.
Out(err, ret, graph, saved, sched, vecs, ready, attempts) ==
  [ok |-> err = "none", err |-> err, ret |-> ret, graph |-> graph, saved |-> saved, sched |-> sched,
   vectors |-> vecs, vsReady |-> ready, attempts |-> attempts]

\* ----------------------------------------------------------- createEntities
\* One iteration of the loop over the batch. acc.arr is entitiesArray, acc.news
\* the names pushed to newEntities (the objects themselves live in acc.arr).
CreateEntitiesStep(acc, e) ==
  IF \E i \in DOMAIN acc.arr : acc.arr[i].name = e.name
  THEN LET ex == acc.arr[LastEntityIndex(acc.arr, e.name)]
           merged == [ex EXCEPT !.observations = Uniq(ex.observations \o e.observations)]
       IN [arr |-> [i \in DOMAIN acc.arr |->
                      IF acc.arr[i].name = e.name THEN merged ELSE acc.arr[i]],
           news |-> acc.news]
  ELSE [arr |-> Append(acc.arr, e), news |-> Append(acc.news, e.name)]

RECURSIVE CreateEntitiesLoop(_, _)
CreateEntitiesLoop(acc, batch) ==
  IF batch = <<>> THEN acc
  ELSE CreateEntitiesLoop(CreateEntitiesStep(acc, Head(batch)), Tail(batch))

\* newEntities: the objects pushed during the loop, as they are after it.
NewEntities(acc) ==
  [i \in DOMAIN acc.news |-> acc.arr[LastEntityIndex(acc.arr, acc.news[i])]]

\* ensureVectorStore: the store already set, or initialised now from the
\* provider's vectorStoreOptions (initOK: that initialisation succeeds).
EnsureVectorStore(initOK) == vsReady \/ (cfg.provider /\ initOK)

\* The loop adding the vectors of created entities that carry an embedding:
\* a store that cannot be obtained or a rejected addVector is only logged.
AddCreatedVectors(created, env) ==
  IF EnsureVectorStore(env.vsInitOK)
  THEN vectors \cup {created[i].name : i \in {j \in DOMAIN created :
                         created[j].embedding /\ created[j].name \notin env.vfail}}
  ELSE vectors

VsReadyAfter(touched, env) ==
  IF touched THEN EnsureVectorStore(env.vsInitOK) ELSE vsReady

\* The awaited scheduleEntityEmbedding calls of one operation, in order. With no
\* job manager none is made; a rejected call ends the operation (no try/catch).
ScheduleAll(names, env) ==
  IF ~cfg.jobManager \/ names = <<>> THEN [calls |-> <<>>, err |-> "none"]
  ELSE IF env.schedOK THEN [calls |-> names, err |-> "none"]
  ELSE [calls |-> <<names[1]>>, err |-> "schedule rejected"]

\* StorageProvider.createEntities (provider not in the sources): the new
\* entities are appended to the provider's graph and returned.
ProviderCreateEntities(g, newEntities) ==
  [graph |-> [g EXCEPT !.entities = g.entities \o newEntities], ret |-> newEntities]

\* createEntities(entities) on the graph g that loadGraph returned.
CreateEntitiesCall(g, batch, env) ==
  IF batch = <<>>
  THEN Out("none", <<>>, g, ~cfg.provider, <<>>, vectors, vsReady, <<>>)
  ELSE
    LET acc == CreateEntitiesLoop([arr |-> g.entities, news |-> <<>>], batch)
        newEntities == NewEntities(acc)
        merged == [g EXCEPT !.entities = acc.arr]
        hasEmb == \E i \in DOMAIN newEntities : newEntities[i].embedding
        names == [i \in DOMAIN newEntities |-> newEntities[i].name]
        sch == ScheduleAll(names, env)
    IN IF newEntities = <<>>
       THEN Out("none", <<>>, IF cfg.provider THEN g ELSE merged, ~cfg.provider, <<>>,
                vectors, vsReady, <<>>)
       ELSE Out(sch.err, newEntities,
                IF cfg.provider THEN ProviderCreateEntities(g, newEntities).graph ELSE merged,
                ~cfg.provider, sch.calls,
                AddCreatedVectors(newEntities, env), VsReadyAfter(hasEmb, env), <<>>)

\* ---------------------------------------------------------- addObservations
\* The loop body without the existingObsSet test: every content is appended.
AddObservationsStepAppendAll(acc, obs) ==
  LET i == FindEntityIndex(acc.es, obs.entityName)
  IN IF i = 0 THEN acc
     ELSE [es |-> [acc.es EXCEPT ![i].observations = @ \o obs.contents],
           results |-> Append(acc.results, [entityName |-> obs.entityName,
                                            addedObservations |-> obs.contents])]

\* One iteration of the loop over the request: find the entity, append the
\* contents that are not yet among its observations, report them.
AddObservationsStep(acc, obs) ==
  LET i == FindEntityIndex(acc.es, obs.entityName)
  IN IF i = 0 THEN acc
     ELSE LET existing == Range(acc.es[i].observations)
              NotThere(c) == c \notin existing
              added == Uniq(SelectSeq(obs.contents, NotThere))
          IN [es |-> [acc.es EXCEPT ![i].observations = @ \o added],
              results |-> Append(acc.results,
                                 [entityName |-> obs.entityName, addedObservations |-> added])]

RECURSIVE AddObservationsLoop(_, _)
AddObservationsLoop(acc, observations) ==
  IF observations = <<>> THEN acc
  ELSE AddObservationsLoop(AddObservationsStep(acc, Head(observations)), Tail(observations))

\* The entities whose added-list is not empty, in result order.
ChangedNames(results) ==
  LET NonEmpty(r) == r.addedObservations # <<>>
      sel == SelectSeq(results, NonEmpty)
  IN [i \in DOMAIN sel |-> sel[i].entityName]

\* StorageProvider.addObservations (provider not in the sources): the new
\* observations are added to existing entities, an absent entity is an error.
ProviderAddObservations(g, observations) ==
  IF \E i \in DOMAIN observations : observations[i].entityName \notin EntityNames(g)
  THEN [err |-> "entity not found", graph |-> g, ret |-> <<>>]
  ELSE LET acc == AddObservationsLoop([es |-> g.entities, results |-> <<>>], observations)
       IN [err |-> "none", graph |-> [g EXCEPT !.entities = acc.es], ret |-> acc.results]

\* addObservations(observations)
AddObservationsCall(g, observations, env) ==
  IF observations = <<>>
  THEN Out("none", <<>>, g, FALSE, <<>>, vectors, vsReady, <<>>)
  ELSE IF cfg.provider
  THEN LET pr == ProviderAddObservations(g, observations)
           sch == ScheduleAll(ChangedNames(pr.ret), env)
       IN IF pr.err # "none"
          THEN Out(pr.err, <<>>, g, FALSE, <<>>, vectors, vsReady, <<>>)
          ELSE Out(sch.err, pr.ret, pr.graph, FALSE, sch.calls, vectors, vsReady, <<>>)
  ELSE IF \E i \in DOMAIN observations : observations[i].entityName \notin EntityNames(g)
  THEN Out("entity not found", <<>>, g, FALSE, <<>>, vectors, vsReady, <<>>)
  ELSE LET acc == AddObservationsLoop([es |-> g.entities, results |-> <<>>], observations)
           sch == ScheduleAll(ChangedNames(acc.results), env)
       IN Out(sch.err, acc.results, [g EXCEPT !.entities = acc.es], TRUE,
              sch.calls, vectors, vsReady, <<>>)

\* ------------------------------------------------------- deleteObservations
DeleteObservationsStep(es, d) ==
  LET i == FindEntityIndex(es, d.entityName)
      Kept(o) == o \notin Range(d.observations)
  IN IF i = 0 THEN es
     ELSE [es EXCEPT ![i].observations = SelectSeq(@, Kept)]

RECURSIVE DeleteObservationsLoop(_, _)
DeleteObservationsLoop(es, deletions) ==
  IF deletions = <<>> THEN es
  ELSE DeleteObservationsLoop(DeleteObservationsStep(es, Head(deletions)), Tail(deletions))

\* StorageProvider.deleteObservations (provider not in the sources): the named
\* observations leave the named entities.
ProviderDeleteObservations(g, deletions) ==
  [g EXCEPT !.entities = DeleteObservationsLoop(g.entities, deletions)]

\* deleteObservations(deletions): both branches schedule one job per deletion
\* item, whatever the deletion removed.
DeleteObservationsCall(g, deletions, env) ==
  IF deletions = <<>>
  THEN Out("none", <<>>, g, FALSE, <<>>, vectors, vsReady, <<>>)
  ELSE LET es == IF cfg.provider THEN ProviderDeleteObservations(g, deletions).entities
                 ELSE DeleteObservationsLoop(g.entities, deletions)
           sch == ScheduleAll([i \in DOMAIN deletions |-> deletions[i].entityName], env)
       IN Out(sch.err, <<>>, [g EXCEPT !.entities = es], ~cfg.provider,
              sch.calls, vectors, vsReady, <<>>)

\* ------------------------------------------------------------- updateEntity
\* { ...entity, ...updates }
ApplyUpdates(e, updates) ==
  [e EXCEPT !.observations = IF updates.hasObs THEN updates.observations ELSE @,
            !.entityType = IF updates.hasType THEN updates.entityType ELSE @]

\* The provider's updateEntity (provider not in the sources): NotFound when the
\* name is absent, else the entity's current version is replaced.
ProviderUpdateEntity(g, entityName, updates) ==
  LET i == FindEntityIndex(g.entities, entityName)
  IN IF i = 0 THEN [err |-> "entity not found", graph |-> g, ret |-> <<>>]
     ELSE [err |-> "none",
           graph |-> [g EXCEPT !.entities[i] = ApplyUpdates(g.entities[i], updates)],
           ret |-> ApplyUpdates(g.entities[i], updates)]

\* updateEntity(entityName, updates): through the provider's updateEntity when
\* there is a provider, else load, replace at the found index, save. A job is
\* scheduled when updates.observations is set.
UpdateEntityCall(g, entityName, updates, env) ==
  LET index == FindEntityIndex(g.entities, entityName)
      sch == ScheduleAll(IF updates.hasObs THEN <<entityName>> ELSE <<>>, env)
  IN IF cfg.provider
     THEN LET pr == ProviderUpdateEntity(g, entityName, updates)
          IN IF pr.err # "none"
             THEN Out(pr.err, <<>>, g, FALSE, <<>>, vectors, vsReady, <<>>)
             ELSE Out(sch.err, pr.ret, pr.graph, FALSE, sch.calls, vectors, vsReady, <<>>)
     ELSE IF index = 0
     THEN Out("entity not found", <<>>, g, FALSE, <<>>, vectors, vsReady, <<>>)
     ELSE LET updatedEntity == ApplyUpdates(g.entities[index], updates)
          IN Out(sch.err, updatedEntity, [g EXCEPT !.entities[index] = updatedEntity], TRUE,
                 sch.calls, vectors, vsReady, <<>>)

\* ----------------------------------------------------------- deleteEntities
\* The removal loop without the inner try/catch: the first rejected removeVector
\* ends the loop.
RemoveVectorsUntilFailure(entityNames, env) ==
  LET failing == {i \in DOMAIN entityNames : entityNames[i] \in env.vfail}
      stop == IF failing = {} THEN Len(entityNames)
              ELSE CHOOSE i \in failing : \A j \in failing : i <= j
      tried == SubSeq(entityNames, 1, stop)
  IN IF EnsureVectorStore(env.vsInitOK)
     THEN [attempts |-> tried, vectors |-> vectors \ (Range(tried) \ env.vfail)]
     ELSE [attempts |-> <<>>, vectors |-> vectors]

\* The removal loop: every name gets its removeVector call; a rejected call is
\* logged and the loop goes on.
RemoveVectors(entityNames, env) ==
  IF EnsureVectorStore(env.vsInitOK)
  THEN [attempts |-> entityNames, vectors |-> vectors \ (Range(entityNames) \ env.vfail)]
  ELSE [attempts |-> <<>>, vectors |-> vectors]

\* StorageProvider.deleteEntities (provider not in the sources), documented in
\* the interface as "Delete entities and their relations".
ProviderDeleteEntities(g, entityNames) ==
  LET gone == Range(entityNames)
      KeepE(e) == e.name \notin gone
      KeepR(r) == r.from \notin gone /\ r.to \notin gone
  IN [entities |-> SelectSeq(g.entities, KeepE), relations |-> SelectSeq(g.relations, KeepR)]

\* deleteEntities that filters the entities only: the relations stay.
DeleteEntitiesKeepRelations(g, entityNames, env) ==
  IF entityNames = <<>>
  THEN Out("none", <<>>, g, FALSE, <<>>, vectors, vsReady, <<>>)
  ELSE LET InNames(n) == \E i \in DOMAIN entityNames : entityNames[i] = n
           KeepE(e) == ~InNames(e.name)
           rv == RemoveVectors(entityNames, env)
       IN Out("none", <<>>, [g EXCEPT !.entities = SelectSeq(g.entities, KeepE)],
              ~cfg.provider, <<>>, rv.vectors, VsReadyAfter(TRUE, env), rv.attempts)

\* deleteEntities(entityNames): the entities and the relations touching them
\* leave the store, then the vectors are removed.
DeleteEntitiesCall(g, entityNames, env) ==
  IF entityNames = <<>>
  THEN Out("none", <<>>, g, FALSE, <<>>, vectors, vsReady, <<>>)
  ELSE LET InNames(n) == \E i \in DOMAIN entityNames : entityNames[i] = n
           KeepE(e) == ~InNames(e.name)
           KeepR(r) == ~InNames(r.from) /\ ~InNames(r.to)
           entitiesToKeep == SelectSeq(g.entities, KeepE)
           relationsToKeep == SelectSeq(g.relations, KeepR)
           rv == RemoveVectors(entityNames, env)
       IN Out("none", <<>>,
              IF cfg.provider THEN ProviderDeleteEntities(g, entityNames)
              ELSE [entities |-> entitiesToKeep, relations |-> relationsToKeep],
              ~cfg.provider, <<>>, rv.vectors, VsReadyAfter(TRUE, env), rv.attempts)

\* ---------------------------------------------------------------- relations
\* `${r.from}|${r.relationType}|${r.to}`
RelationKey(r) == <<r.from, r.relationType, r.to>>

SameTriple(r, q) ==
  r.from = q.from /\ r.relationType = q.relationType /\ r.to = q.to

\* Array.prototype.findIndex on the triple; 0 stands for -1.
FindRelationIndex(rs, q) ==
  IF \E i \in DOMAIN rs : SameTriple(rs[i], q)
  THEN CHOOSE i \in DOMAIN rs :
         SameTriple(rs[i], q) /\ \A j \in 1..(i - 1) : ~SameTriple(rs[j], q)
  ELSE 0

\* The relations of the request whose key is not among the stored keys; the
\* set of stored keys is built once, before the filter runs.
NewRelations(g, relations) ==
  LET existingRelations == {RelationKey(g.relations[i]) : i \in DOMAIN g.relations}
      IsNew(r) == RelationKey(r) \notin existingRelations
  IN SelectSeq(relations, IsNew)

\* StorageProvider.createRelations (provider not in the sources): a relation
\* whose triple is stored or repeated in the request is a duplicate key.
ProviderCreateRelations(g, relations) ==
  IF \E i \in DOMAIN relations :
       relations[i].from \notin EntityNames(g) \/ relations[i].to \notin EntityNames(g)
  THEN [err |-> "entity not found", graph |-> g, ret |-> <<>>]
  ELSE IF NewRelations(g, relations) # relations
     \/ \E i, j \in DOMAIN relations : i < j /\ SameTriple(relations[i], relations[j])
  THEN [err |-> "duplicate key", graph |-> g, ret |-> <<>>]
  ELSE [err |-> "none", graph |-> [g EXCEPT !.relations = g.relations \o relations],
        ret |-> relations]

\* createRelations without the verification loop in front: the relations with
\* stored endpoints are appended and saved, then the missing endpoint is reported.
CreateRelationsCallStoringValid(g, relations) ==
  LET Valid(r) == r.from \in EntityNames(g) /\ r.to \in EntityNames(g)
      newRelations == NewRelations(g, SelectSeq(relations, Valid))
  IN  Out(IF SelectSeq(relations, Valid) = relations THEN "none" ELSE "entity not found",
          newRelations, [g EXCEPT !.relations = g.relations \o newRelations],
          ~cfg.provider, <<>>, vectors, vsReady, <<>>)

\* createRelations(relations)
CreateRelationsCall(g, relations) ==
  IF relations = <<>>
  THEN Out("none", <<>>, g, ~cfg.provider, <<>>, vectors, vsReady, <<>>)
  ELSE IF cfg.provider
  THEN LET pr == ProviderCreateRelations(g, relations)
       IN Out(pr.err, pr.ret, pr.graph, FALSE, <<>>, vectors, vsReady, <<>>)
  ELSE IF \E i \in DOMAIN relations :
            relations[i].from \notin EntityNames(g) \/ relations[i].to \notin EntityNames(g)
  THEN Out("entity not found", <<>>, g, FALSE, <<>>, vectors, vsReady, <<>>)
  ELSE LET newRelations == NewRelations(g, relations)
       IN Out("none", newRelations, [g EXCEPT !.relations = g.relations \o newRelations],
              TRUE, <<>>, vectors, vsReady, <<>>)

\* StorageProvider.deleteRelations (provider not in the sources).
ProviderDeleteRelations(g, relations) ==
  LET Kept(r) == ~\E i \in DOMAIN relations : SameTriple(r, relations[i])
  IN [g EXCEPT !.relations = SelectSeq(g.relations, Kept)]

\* deleteRelations(relations)
DeleteRelationsCall(g, relations) ==
  IF relations = <<>>
  THEN Out("none", <<>>, g, FALSE, <<>>, vectors, vsReady, <<>>)
  ELSE IF cfg.provider
  THEN Out("none", <<>>, ProviderDeleteRelations(g, relations), FALSE, <<>>,
           vectors, vsReady, <<>>)
  ELSE LET Kept(r) == ~\E i \in DOMAIN relations : SameTriple(r, relations[i])
       IN Out("none", <<>>, [g EXCEPT !.relations = SelectSeq(g.relations, Kept)],
              TRUE, <<>>, vectors, vsReady, <<>>)

\* getRelation(from, to, relationType): the first stored relation with the
\* triple, or null.
GetRelation(g, q) ==
  LET i == FindRelationIndex(g.relations, q)
  IN IF i = 0 THEN [found |-> FALSE, relation |-> q]
     ELSE [found |-> TRUE, relation |-> g.relations[i]]

\* The provider's updateRelation (provider not in the sources): NotFound when
\* the triple is absent, else the relation's current version is replaced.
ProviderUpdateRelation(g, relation) ==
  LET i == FindRelationIndex(g.relations, relation)
  IN IF i = 0 THEN [err |-> "relation not found", graph |-> g, ret |-> <<>>]
     ELSE [err |-> "none", graph |-> [g EXCEPT !.relations[i] = relation], ret |-> relation]

\* updateRelation written as an upsert: an absent triple is appended.
UpdateRelationUpsert(g, relation) ==
  LET index == FindRelationIndex(g.relations, relation)
  IN IF index = 0
     THEN Out("none", relation, [g EXCEPT !.relations = Append(@, relation)], TRUE,
              <<>>, vectors, vsReady, <<>>)
     ELSE Out("none", relation, [g EXCEPT !.relations[index] = relation], TRUE,
              <<>>, vectors, vsReady, <<>>)

\* The fallback of updateRelation: load, replace the relation at the found
\* index, save.
UpdateRelationFallback(g, relation) ==
  LET index == FindRelationIndex(g.relations, relation)
  IN IF index = 0
     THEN Out("relation not found", <<>>, g, FALSE, <<>>, vectors, vsReady, <<>>)
     ELSE Out("none", relation, [g EXCEPT !.relations[index] = relation], TRUE,
              <<>>, vectors, vsReady, <<>>)

\* updateRelation(relation)
UpdateRelationCall(g, relation) ==
  IF cfg.provider
  THEN LET pr == ProviderUpdateRelation(g, relation)
       IN Out(pr.err, pr.ret, pr.graph, FALSE, <<>>, vectors, vsReady, <<>>)
  ELSE UpdateRelationFallback(g, relation)

\* ------------------------------------------------- provider version history
\* The provider (not in the sources) keeps every version of an entity and of a
\* relation: version 1 on creation, one more version per update.
\* phist holds the number of versions kept for each name and triple.
EntityData(g, n) == g.entities[FindEntityIndex(g.entities, n)]

RelationData(g, k) ==
  g.relations[FindRelationIndex(g.relations, [from |-> k[1], relationType |-> k[2], to |-> k[3]])]

RelationKeys(g) == {RelationKey(g.relations[i]) : i \in DOMAIN g.relations}

NextEntityHistory(h, pre, post, updated) ==
  [n \in Names |->
     IF n \notin EntityNames(post) THEN 0
     ELSE IF n \notin EntityNames(pre) THEN 1
     ELSE IF n \in updated THEN h[n] + 1
     ELSE h[n]]

NextRelationHistory(h, pre, post, updated) ==
  [k \in Triples |->
     IF k \notin RelationKeys(post) THEN 0
     ELSE IF k \notin RelationKeys(pre) THEN 1
     ELSE IF k \in updated THEN h[k] + 1
     ELSE h[k]]

\* getEntityHistory / getRelationHistory need a provider; without one the only
\* versions that can be read back are the stored ones.
EntityVersionCount(n) ==
  IF cfg.provider THEN phist.ent[n]
  ELSE Cardinality({i \in DOMAIN CurrentGraph.entities : CurrentGraph.entities[i].name = n})

RelationVersionCount(k) ==
  IF cfg.provider THEN phist.rel[k]
  ELSE Cardinality({i \in DOMAIN CurrentGraph.relations :
                      RelationKey(CurrentGraph.relations[i]) = k})

\* ------------------------------------------------------------------ actions
NoEnv == [schedOK |-> TRUE, vsInitOK |-> FALSE, vfail |-> {}]

SchedEnvs == {[schedOK |-> b, vsInitOK |-> FALSE, vfail |-> {}] : b \in BOOLEAN}

VectorEnvs == [schedOK : {TRUE}, vsInitOK : BOOLEAN, vfail : SUBSET Names]

\* No embedding stored for an entity.
NoEmbedding == [has |-> FALSE, text |-> <<>>]

\* A vector is num[i] / sqrt(densq), i in 1..Len(num): what the service
\* computes in exact arithmetic.
NoVector == [num |-> <<>>, densq |-> 1]

\* validFrom / validTo left undefined.
Undefined == -1

\* No validity question asked.
NoValidity == [versions |-> <<>>, now |-> 0, at |-> "none", valid |-> {}]

\* No tool request handled; no query analysed.
NoTool == [at |-> "none"]

NoAnalysis == [at |-> "none"]

\* generateEmbeddings not called.
NoBatch == [at |-> "none"]

\* No object validated.
NoCheck == [at |-> "none"]

\* createFromEnvironment not called.
NoFactory ==
  [env |-> [mock |-> FALSE, provider |-> "unset", azureKey |-> FALSE, azureEndpoint |-> FALSE,
            azureModel |-> FALSE, openaiKey |-> FALSE, openaiOK |-> TRUE],
   at |-> "none", service |-> "none"]

\* No embedding service in use.
NoService ==
  [kind |-> "none", response |-> [isArray |-> FALSE, embedding |-> <<>>], at |-> "none",
   err |-> "none", vector |-> NoVector, stored |-> NoVector]

\* The calls that may be in flight at once, between their awaits.
Procs == {1, 2}

IdleCall == [pc |-> "idle", op |-> "none", arg |-> <<>>, graph |-> EmptyGraph, err |-> "none"]

NoCall ==
  [op |-> "none", arg |-> <<>>, ok |-> TRUE, err |-> "none", ret |-> <<>>, sched |-> <<>>,
   attempts |-> <<>>, pre |-> EmptyGraph, preVectors |-> {}, preVersions |-> 0]

\* A call of the manager, start to finish: the store written (file or
\* provider), the vector store, and the record of the call.
ApplyStore(op, arg, g, out, updE, updR, nver) ==
  /\ IF cfg.provider
     THEN /\ pgraph' = out.graph
          /\ phist' = [ent |-> NextEntityHistory(phist.ent, g, out.graph, updE),
                       rel |-> NextRelationHistory(phist.rel, g, out.graph, updR)]
          /\ \A n \in Names : phist'.ent[n] <= MaxVersions
          /\ \A k \in Triples : phist'.rel[k] <= MaxVersions
          /\ file' = file
     ELSE /\ file' = IF out.saved THEN SaveGraph(out.graph) ELSE file
          /\ UNCHANGED <<pgraph, phist>>
  /\ vectors' = out.vectors
  /\ vsReady' = out.vsReady
  /\ last' = [op |-> op, arg |-> arg, ok |-> out.ok, err |-> out.err, ret |-> out.ret,
              sched |-> out.sched, attempts |-> out.attempts, pre |-> g,
              preVectors |-> vectors, preVersions |-> nver]
  /\ UNCHANGED <<cfg, calls, base, embedded, svc, tr, factory, tool, qp, gen, validator>>

\* The call with the job manager's queue left aside: its scheduling calls are
\* in last.sched.
Apply(op, arg, g, out, updE, updR, nver) ==
  /\ ApplyStore(op, arg, g, out, updE, updR, nver)
  /\ UNCHANGED jobs

\* Calls are made one after the other: the caller has taken the previous outcome.
Commit(op, arg, g, out, updE, updR, nver) ==
  /\ last = NoCall
  /\ Apply(op, arg, g, out, updE, updR, nver)

\* The caller takes the outcome of the call; the record of it is dropped.
Acknowledge ==
  /\ last # NoCall
  /\ last' = NoCall
  /\ UNCHANGED <<cfg, file, pgraph, phist, vsReady, vectors, calls, base, embedded, jobs, svc, tr, factory, tool, qp, gen, validator>>

CreateEntities(batch, env) ==
  Commit("createEntities", batch, CurrentGraph,
         CreateEntitiesCall(CurrentGraph, batch, env), {}, {}, 0)

\* The same createEntities call made a second time, right after the first.
CreateEntitiesAgain(env) ==
  /\ last.op = "createEntities"
  /\ last.ok
  /\ Apply("createEntitiesAgain", last.arg, CurrentGraph,
           CreateEntitiesCall(CurrentGraph, last.arg, env), {}, {}, 0)

\* The same addObservations call made a second time, right after the first.
AddObservationsAgain(env) ==
  /\ last.op = "addObservations"
  /\ last.ok
  /\ Apply("addObservationsAgain", last.arg, CurrentGraph,
           AddObservationsCall(CurrentGraph, last.arg, env), {}, {}, 0)

AddObservations(observations, env) ==
  Commit("addObservations", observations, CurrentGraph,
         AddObservationsCall(CurrentGraph, observations, env), {}, {}, 0)

DeleteObservations(deletions, env) ==
  Commit("deleteObservations", deletions, CurrentGraph,
         DeleteObservationsCall(CurrentGraph, deletions, env), {}, {}, 0)

UpdateEntity(entityName, updates, env) ==
  LET out == UpdateEntityCall(CurrentGraph, entityName, updates, env)
  IN Commit("updateEntity", [entityName |-> entityName, updates |-> updates], CurrentGraph,
            out, {entityName} \cap EntityNames(CurrentGraph), {},
            EntityVersionCount(entityName))

DeleteEntities(entityNames, env) ==
  Commit("deleteEntities", entityNames, CurrentGraph,
         DeleteEntitiesCall(CurrentGraph, entityNames, env), {}, {}, 0)

CreateRelations(relations) ==
  Commit("createRelations", relations, CurrentGraph,
         CreateRelationsCall(CurrentGraph, relations), {}, {}, 0)

DeleteRelations(relations) ==
  Commit("deleteRelations", relations, CurrentGraph,
         DeleteRelationsCall(CurrentGraph, relations), {}, {}, 0)

UpdateRelation(relation) ==
  Commit("updateRelation", relation, CurrentGraph,
         UpdateRelationCall(CurrentGraph, relation),
         {}, {RelationKey(relation)} \cap RelationKeys(CurrentGraph),
         RelationVersionCount(RelationKey(relation)))

\* ------------------------------------------------------------------- inputs
\* Observation lists of a request: none, one, a repeated one, two in order.
ObsSeqs == {<<>>, <<"x">>, <<"x", "x">>, <<"y", "x">>}

EntityInputs(obs, embs) ==
  [name : Names, entityType : {"t"}, observations : obs, embedding : embs]

ObservationItems == [entityName : Names, contents : ObsSeqs]

DeletionItems == [entityName : Names, observations : ObsSeqs]

ObservationUpdates ==
  [hasObs : {TRUE}, observations : ObsSeqs, hasType : {FALSE}, entityType : {"t"}]

TypeUpdates ==
  [hasObs : {FALSE}, observations : {<<>>}, hasType : {TRUE}, entityType : Types]

\* Relations of a request: from one entity to either, with either strength.
RelationInputs == [from : {"a"}, to : Names, relationType : RelTypes, strength : Strengths]

Configs == [provider : BOOLEAN, jobManager : BOOLEAN]

\* After construction: an absent memory file, an empty provider, no vector store.
Init ==
  /\ cfg \in Configs
  /\ file = <<>>
  /\ pgraph = EmptyGraph
  /\ phist = [ent |-> [n \in Names |-> 0], rel |-> [k \in Triples |-> 0]]
  /\ vsReady = FALSE
  /\ vectors = {}
  /\ last = NoCall
  /\ calls = [p \in Procs |-> IdleCall]
  /\ base = EmptyGraph
  /\ embedded = [n \in Names |-> NoEmbedding]
  /\ jobs = <<>>
  /\ svc = NoService
  /\ tr = NoValidity
  /\ factory = NoFactory
  /\ tool = NoTool
  /\ qp = NoAnalysis
  /\ gen = NoBatch
  /\ validator = NoCheck

\* The entity and observation operations of the manager.
Next ==
  \/ \E batch \in SeqsUpTo(EntityInputs(ObsSeqs, {FALSE}), MaxBatch), env \in SchedEnvs :
       CreateEntities(batch, env)
  \/ \E observations \in SeqsUpTo(ObservationItems, MaxBatch), env \in SchedEnvs :
       AddObservations(observations, env)
  \/ \E deletions \in SeqsUpTo(DeletionItems, MaxBatch), env \in SchedEnvs :
       DeleteObservations(deletions, env)
  \/ \E entityName \in Names, updates \in ObservationUpdates, env \in SchedEnvs :
       UpdateEntity(entityName, updates, env)
  \/ \E env \in SchedEnvs : CreateEntitiesAgain(env)
  \/ Acknowledge

Spec == Init /\ [][Next]_vars

\* --------------------------------------------------------------- properties
MutatingOps == {"createEntities", "createEntitiesAgain", "addObservations",
                "deleteObservations", "updateEntity"}

NameCount(g, n) == Cardinality({i \in DOMAIN g.entities : g.entities[i].name = n})

\* Names are unique in the stored graph.
NoDuplicateNames == \A n \in Names : NameCount(CurrentGraph, n) <= 1

\* All observation lists the batch gives for name n, in batch order.
RECURSIVE BatchObservations(_, _)
BatchObservations(batch, n) ==
  IF batch = <<>> THEN <<>>
  ELSE (IF Head(batch).name = n THEN Head(batch).observations ELSE <<>>)
       \o BatchObservations(Tail(batch), n)

BatchNames(batch) == {batch[i].name : i \in DOMAIN batch}

\* C1: after createEntities names an entity that was already stored, the store
\* holds that entity once, and its observations are the stored ones in their
\* order followed by the new ones that were not present, each once; a read
\* returns that list. In file-backed mode and with a storage provider.
C1_MergeOnExistingName ==
  (last.op = "createEntities" /\ last.ok) =>
    \A n \in BatchNames(last.arg) \cap EntityNames(last.pre) :
      /\ NameCount(CurrentGraph, n) = 1
      /\ EntityData(CurrentGraph, n).observations =
           Uniq(EntityData(last.pre, n).observations \o BatchObservations(last.arg, n))

\* The case of C1 in file-backed mode.
C1_FileModeMergeReached ==
  /\ last.op = "createEntities" /\ last.ok /\ ~cfg.provider
  /\ \E n \in BatchNames(last.arg) \cap EntityNames(last.pre) :
       EntityData(CurrentGraph, n).observations # EntityData(last.pre, n).observations

\* C2: createEntities called twice with the same entities leaves the store as
\* it was after the first call, one stored entity per name, observations not
\* doubled; and no two stored entities ever share a name.
C2_CreateEntitiesIdempotent ==
  /\ NoDuplicateNames
  /\ (last.op = "createEntitiesAgain" /\ last.ok) =>
       /\ CurrentGraph = last.pre
       /\ \A n \in BatchNames(last.arg) : NameCount(CurrentGraph, n) = 1

\* The entities whose stored observations the last call changed, or that it created.
ObservationsChanged(n) ==
  \/ n \in EntityNames(CurrentGraph) \ EntityNames(last.pre)
  \/ /\ n \in EntityNames(CurrentGraph) \cap EntityNames(last.pre)
     /\ EntityData(CurrentGraph, n).observations # EntityData(last.pre, n).observations

\* C5: with a job manager configured, a mutating call schedules an embedding
\* job for an entity exactly when it changed that entity's stored observations
\* or created the entity.
C5_ScheduledIffObservationsChanged ==
  (last.op \in MutatingOps /\ cfg.jobManager /\ last.ok) =>
    \A n \in Names : (n \in Range(last.sched)) <=> ObservationsChanged(n)

\* C6: a mutating call whose store write succeeded returns its result whatever
\* the job manager does: a call that got as far as scheduling does not fail.
C6_SchedulingFailureContained ==
  (last.op \in MutatingOps /\ last.sched # <<>>) => last.ok

\* ------------------------------------------------- relations and versions
InitRelations ==
  /\ cfg \in {c \in Configs : ~c.jobManager}
  /\ file = <<>>
  /\ pgraph = EmptyGraph
  /\ phist = [ent |-> [n \in Names |-> 0], rel |-> [k \in Triples |-> 0]]
  /\ vsReady = FALSE
  /\ vectors = {}
  /\ last = NoCall
  /\ calls = [p \in Procs |-> IdleCall]
  /\ base = EmptyGraph
  /\ embedded = [n \in Names |-> NoEmbedding]
  /\ jobs = <<>>
  /\ svc = NoService
  /\ tr = NoValidity
  /\ factory = NoFactory
  /\ tool = NoTool
  /\ qp = NoAnalysis
  /\ gen = NoBatch
  /\ validator = NoCheck

\* The relation operations of the manager, with the entity operations that
\* create, retype and delete the endpoints.
NextRelations ==
  \/ \E batch \in SeqsUpTo(EntityInputs({<<>>}, {FALSE}), MaxBatch) :
       CreateEntities(batch, NoEnv)
  \/ \E relations \in SeqsUpTo(RelationInputs, MaxBatch) : CreateRelations(relations)
  \/ \E relation \in RelationInputs : UpdateRelation(relation)
  \/ \E relations \in SeqsUpTo(RelationInputs, MaxBatch) : DeleteRelations(relations)
  \/ \E entityName \in Names, updates \in TypeUpdates :
       UpdateEntity(entityName, updates, NoEnv)
  \/ \E entityNames \in SeqsUpTo(Names, MaxBatch) : DeleteEntities(entityNames, NoEnv)
  \/ Acknowledge

SpecRelations == InitRelations /\ [][NextRelations]_vars

\* C3: an update never overwrites in place: after a successful updateEntity or
\* updateRelation of an item that had N retrievable versions, N+1 versions of
\* it are retrievable.
C3_UpdateAddsVersion ==
  /\ (last.op = "updateRelation" /\ last.ok) =>
       RelationVersionCount(RelationKey(last.arg)) = last.preVersions + 1
  /\ (last.op = "updateEntity" /\ last.ok) =>
       EntityVersionCount(last.arg.entityName) = last.preVersions + 1

\* C8: updateEntity of a name that is not stored and updateRelation of a triple
\* that is not stored fail with not-found and leave the stored graph as it
\* was; a successful updateRelation changes only relations with the given
\* triple, and getRelation then returns the given relation.
C8_UpdateNotFoundOrMatchingOnly ==
  /\ (last.op = "updateEntity" /\ last.arg.entityName \notin EntityNames(last.pre)) =>
       last.err = "entity not found" /\ CurrentGraph = last.pre
  /\ (last.op = "updateRelation" /\ RelationKey(last.arg) \notin RelationKeys(last.pre)) =>
       last.err = "relation not found" /\ CurrentGraph = last.pre
  /\ (last.op = "updateRelation" /\ last.ok) =>
       /\ CurrentGraph.entities = last.pre.entities
       /\ Len(CurrentGraph.relations) = Len(last.pre.relations)
       /\ \A i \in DOMAIN CurrentGraph.relations :
            CurrentGraph.relations[i] # last.pre.relations[i] =>
              SameTriple(last.pre.relations[i], last.arg)
       /\ GetRelation(CurrentGraph, last.arg) = [found |-> TRUE, relation |-> last.arg]

\* A successful updateRelation on the file-backed store that changed one of
\* several stored relations.
C8_UpdateRelationChangedOne ==
  /\ last.op = "updateRelation" /\ last.ok /\ ~cfg.provider
  /\ CurrentGraph # last.pre
  /\ Cardinality(RelationKeys(CurrentGraph)) >= 2

\* C9: on the file-backed store no two stored relations have the same
\* (from, to, relationType) triple, also when one createRelations batch
\* repeats a triple; a triple that was stored is not returned as created.
C9_TripleStoredOnce ==
  ~cfg.provider =>
    /\ \A i, j \in DOMAIN CurrentGraph.relations :
         SameTriple(CurrentGraph.relations[i], CurrentGraph.relations[j]) => i = j
    /\ (last.op = "createRelations" /\ last.ok) =>
         \A i \in DOMAIN last.ret : RelationKey(last.ret[i]) \notin RelationKeys(last.pre)

\* ------------------------------------------------------------ vector store
\* The constructor may have been given vectorStoreOptions: the vector store is
\* then set from the start.
InitVectors ==
  /\ cfg \in {c \in Configs : ~c.jobManager}
  /\ file = <<>>
  /\ pgraph = EmptyGraph
  /\ phist = [ent |-> [n \in Names |-> 0], rel |-> [k \in Triples |-> 0]]
  /\ vsReady \in BOOLEAN
  /\ vectors = {}
  /\ last = NoCall
  /\ calls = [p \in Procs |-> IdleCall]
  /\ base = EmptyGraph
  /\ embedded = [n \in Names |-> NoEmbedding]
  /\ jobs = <<>>
  /\ svc = NoService
  /\ tr = NoValidity
  /\ factory = NoFactory
  /\ tool = NoTool
  /\ qp = NoAnalysis
  /\ gen = NoBatch
  /\ validator = NoCheck

\* Entities created with or without an embedding, and deleted, with a vector
\* store that may fail to initialise and may reject the calls for some names.
NextVectors ==
  \/ \E batch \in SeqsUpTo(EntityInputs({<<>>}, BOOLEAN), MaxBatch), env \in VectorEnvs :
       CreateEntities(batch, env)
  \/ \E entityNames \in SeqsUpTo(Names, MaxBatch), env \in VectorEnvs :
       DeleteEntities(entityNames, env)
  \/ Acknowledge

SpecVectors == InitVectors /\ [][NextVectors]_vars

\* C10: deleteEntities removes the named entities from the store and resolves;
\* when the vector store was obtained every name got its removeVector call,
\* whichever of them failed; when it was not, nothing else changed.
C10_DeleteEntitiesBestEffort ==
  (last.op = "deleteEntities" /\ last.arg # <<>>) =>
    /\ last.ok
    /\ EntityNames(CurrentGraph) = EntityNames(last.pre) \ Range(last.arg)
    /\ IF vsReady THEN last.attempts = last.arg
       ELSE last.attempts = <<>> /\ vectors = last.preVectors

\* deleteEntities of two stored names: the first removeVector failed, the
\* second went through.
C10_SecondRemovedAfterFirstFailed ==
  /\ last.op = "deleteEntities" /\ Len(last.arg) = 2
  /\ Range(last.arg) \subseteq EntityNames(last.pre)
  /\ last.arg[1] \in vectors
  /\ last.arg[2] \in last.preVectors \ vectors

\* ------------------------------------------- calls in flight at the same time
\* A file-backed call awaits loadGraph, changes the graph it got, and awaits
\* saveGraph: another call can run between the two awaits.
AllIdle == \A p \in Procs : calls[p].pc = "idle"

\* What the call (op, arg) does when it starts from graph g.
CallOn(g, op, arg) ==
  IF op = "addObservations" THEN AddObservationsCall(g, arg, NoEnv)
  ELSE IF op = "deleteObservations" THEN DeleteObservationsCall(g, arg, NoEnv)
  ELSE CreateEntitiesCall(g, arg, NoEnv)

\* await this.loadGraph(): the call holds the graph parsed from the file as it
\* is now. base is the store before the first of the calls.
Load(p, op, arg) ==
  /\ last = NoCall
  /\ calls[p].pc = "idle"
  /\ calls' = [calls EXCEPT ![p] = [pc |-> "loaded", op |-> op, arg |-> arg,
                                    graph |-> LoadGraph(file), err |-> "none"]]
  /\ base' = IF AllIdle THEN LoadGraph(file) ELSE base
  /\ UNCHANGED <<cfg, file, pgraph, phist, vsReady, vectors, last, embedded, jobs, svc, tr, factory, tool, qp, gen, validator>>

\* The rest of the call: the loaded graph is changed and saveGraph writes it.
Save(p) ==
  /\ calls[p].pc = "loaded"
  /\ LET out == CallOn(calls[p].graph, calls[p].op, calls[p].arg)
     IN /\ file' = IF out.saved THEN SaveGraph(out.graph) ELSE file
        /\ calls' = [calls EXCEPT ![p].pc = "done", ![p].err = out.err]
  /\ UNCHANGED <<cfg, pgraph, phist, vsReady, vectors, last, base, embedded, jobs, svc, tr, factory, tool, qp, gen, validator>>

InitConcurrent ==
  /\ cfg = [provider |-> FALSE, jobManager |-> FALSE]
  /\ file = <<>>
  /\ pgraph = EmptyGraph
  /\ phist = [ent |-> [n \in Names |-> 0], rel |-> [k \in Triples |-> 0]]
  /\ vsReady = FALSE
  /\ vectors = {}
  /\ last = NoCall
  /\ calls = [p \in Procs |-> IdleCall]
  /\ base = EmptyGraph
  /\ embedded = [n \in Names |-> NoEmbedding]
  /\ jobs = <<>>
  /\ svc = NoService
  /\ tr = NoValidity
  /\ factory = NoFactory
  /\ tool = NoTool
  /\ qp = NoAnalysis
  /\ gen = NoBatch
  /\ validator = NoCheck

\* Observation lists of the requests in flight, all on entity "a".
OneEntityObs == {<<"x">>, <<"y">>}

\* Entities are created one call after the other; then each of the two calls
\* in flight loads and saves.
NextConcurrent ==
  \/ /\ AllIdle
     /\ \E batch \in SeqsUpTo(EntityInputs({<<>>, <<"x">>}, {FALSE}), MaxBatch) :
          CreateEntities(batch, NoEnv)
  \/ Acknowledge
  \/ \E p \in Procs, contents \in OneEntityObs :
       Load(p, "addObservations", <<[entityName |-> "a", contents |-> contents]>>)
  \/ \E p \in Procs, observations \in OneEntityObs :
       Load(p, "deleteObservations", <<[entityName |-> "a", observations |-> observations]>>)
  \/ \E p \in Procs, observations \in OneEntityObs :
       Load(p, "createEntities", <<[name |-> "a", entityType |-> "t",
                                    observations |-> observations, embedding |-> FALSE]>>)
  \/ \E p \in Procs : Save(p)

SpecConcurrent == InitConcurrent /\ [][NextConcurrent]_vars

\* The store after call p then call q, each run start to finish, from base.
SerialResult(p, q) ==
  LET first == CallOn(base, calls[p].op, calls[p].arg).graph
  IN CallOn(first, calls[q].op, calls[q].arg).graph

\* C4: when two mutating calls have both finished, whatever the interleaving of
\* their load and save steps, the store is what one of the two serial orders
\* of the calls leaves.
C4_NoLostUpdate ==
  (\A p \in Procs : calls[p].pc = "done") =>
    \/ LoadGraph(file) = SerialResult(1, 2)
    \/ LoadGraph(file) = SerialResult(2, 1)

\* ------------------------------------------------------------------- search
\* String.prototype.includes on lower-cased text, for the one-character names
\* of Names and the queries of Queries: the empty query is in every name.
Includes(name, query) == query = "" \/ query = name

\* The fallback of searchNodes: entities whose name includes the query, and
\* relations with such an endpoint.
SearchNodesFallback(g, query) ==
  LET HitE(e) == Includes(e.name, query)
      HitR(r) == Includes(r.from, query) \/ Includes(r.to, query)
  IN [entities |-> SelectSeq(g.entities, HitE), relations |-> SelectSeq(g.relations, HitR)]

\* StorageProvider.searchNodes (provider not in the sources): keyword search.
ProviderSearchNodes(g, query) == SearchNodesFallback(g, query)

\* searchNodes(query)
SearchNodes(g, query) ==
  IF cfg.provider THEN ProviderSearchNodes(g, query) ELSE SearchNodesFallback(g, query)

\* openNodes(names) on the file-backed store.
OpenNodes(g, names) ==
  LET HitE(e) == e.name \in names
      HitR(r) == r.from \in names \/ r.to \in names
  IN [entities |-> SelectSeq(g.entities, HitE), relations |-> SelectSeq(g.relations, HitR)]

\* The provider's semanticSearch (provider not in the sources): the entities
\* that have a vector, with their relations.
ProviderSemanticSearch(g, query) == OpenNodes(g, vectors)

\* findSimilarEntities(query) without a provider: rejects when the embedding
\* service is missing or generateEmbedding rejects; a vector store that cannot
\* be obtained or whose search rejects gives no match.
FindSimilarEntities(env) ==
  IF ~env.hasService THEN [err |-> "no embedding service", names |-> {}, failed |-> {}]
  ELSE IF ~env.embedOK
  THEN [err |-> "generateEmbedding rejected", names |-> {}, failed |-> {"generateEmbedding"}]
  ELSE IF ~EnsureVectorStore(env.vsInitOK) THEN [err |-> "none", names |-> {}, failed |-> {}]
  ELSE IF ~env.vsSearchOK THEN [err |-> "none", names |-> {}, failed |-> {"vectorStore.search"}]
  ELSE [err |-> "none", names |-> vectors, failed |-> {}]

\* The private semanticSearch(query): the matches opened and scored.
SemanticSearch(g, env) ==
  LET similarEntities == FindSimilarEntities(env)
      graph == OpenNodes(g, similarEntities.names)
      Scored(e) == [name |-> e.name, entityType |-> e.entityType,
                    observations |-> e.observations, embedding |-> e.embedding, score |-> 1]
  IN [err |-> similarEntities.err, failed |-> similarEntities.failed,
      graph |-> IF similarEntities.names = {} THEN EmptyGraph
                ELSE [entities |-> [i \in DOMAIN graph.entities |-> Scored(graph.entities[i])],
                      relations |-> graph.relations]]

\* What search returned and how: via keyword or semantic search, after which
\* rejected calls, and whether generateEmbedding was called for the query.
Found(via, graph, failed, generated) ==
  [via |-> via, graph |-> graph, failed |-> failed, generated |-> generated]

\* search(query, options) when semantic search is requested: err, and what
\* was returned.
SemanticRoute(g, query, options, env) ==
  LET keyword == SearchNodes(g, query)
  IN IF cfg.provider /\ env.hasSemanticSearch
     THEN IF cfg.jobManager /\ env.hasService
          THEN IF ~env.embedOK
               THEN [err |-> "none",
                     ret |-> Found("keyword", keyword, {"generateEmbedding"}, TRUE)]
               ELSE IF env.semOK
               THEN [err |-> "none",
                     ret |-> Found("semantic", ProviderSemanticSearch(g, query), {}, TRUE)]
               ELSE [err |-> "semanticSearch rejected",
                     ret |-> Found("none", EmptyGraph, {"semanticSearch"}, TRUE)]
          ELSE [err |-> "none", ret |-> Found("keyword", keyword, {}, FALSE)]
     ELSE IF cfg.provider
     THEN [err |-> "none", ret |-> Found("keyword", keyword, {}, FALSE)]
     ELSE IF cfg.jobManager
     THEN LET results == SemanticSearch(g, env)
          IN IF results.err # "none"
             THEN [err |-> "none",
                   ret |-> Found("keyword", keyword, results.failed, env.hasService)]
             ELSE [err |-> "none",
                   ret |-> Found("semantic", results.graph, results.failed, env.hasService)]
     ELSE [err |-> "none", ret |-> Found("keyword", keyword, {}, FALSE)]

\* search that looks at options.semanticSearch alone.
SearchResultIgnoringHybrid(g, query, options, env) ==
  IF ~options.semanticSearch
  THEN [err |-> "none", ret |-> Found("keyword", SearchNodes(g, query), {}, FALSE)]
  ELSE SemanticRoute(g, query, options, env)

\* search(query, options)
SearchResult(g, query, options, env) ==
  IF ~(options.semanticSearch \/ options.hybridSearch)
  THEN [err |-> "none", ret |-> Found("keyword", SearchNodes(g, query), {}, FALSE)]
  ELSE SemanticRoute(g, query, [options EXCEPT !.semanticSearch = TRUE], env)

SearchCall(g, query, options, env) ==
  LET r == SearchResult(g, query, options, env)
  IN Out(r.err, r.ret, g, FALSE, <<>>, vectors, vsReady, <<>>)

Search(query, options, env) ==
  Commit("search", [query |-> query, options |-> options], CurrentGraph,
         SearchCall(CurrentGraph, query, options, env), {}, {}, 0)

Queries == {"", "a", "b"}

SearchOptions == [semanticSearch : BOOLEAN, hybridSearch : BOOLEAN]

\* What the embedding service, the provider and the vector store do during a
\* search.
SearchEnvs ==
  [hasService : BOOLEAN, hasSemanticSearch : BOOLEAN, embedOK : BOOLEAN, semOK : BOOLEAN,
   vsSearchOK : BOOLEAN, vsInitOK : {FALSE}]

AllGoodEnv == [schedOK |-> TRUE, vsInitOK |-> TRUE, vfail |-> {}]

InitSearch ==
  /\ cfg \in Configs
  /\ file = <<>>
  /\ pgraph = EmptyGraph
  /\ phist = [ent |-> [n \in Names |-> 0], rel |-> [k \in Triples |-> 0]]
  /\ vsReady \in BOOLEAN
  /\ vectors = {}
  /\ last = NoCall
  /\ calls = [p \in Procs |-> IdleCall]
  /\ base = EmptyGraph
  /\ embedded = [n \in Names |-> NoEmbedding]
  /\ jobs = <<>>
  /\ svc = NoService
  /\ tr = NoValidity
  /\ factory = NoFactory
  /\ tool = NoTool
  /\ qp = NoAnalysis
  /\ gen = NoBatch
  /\ validator = NoCheck

\* Entities are created with their embedding, then searched.
NextSearch ==
  \/ \E batch \in SeqsUpTo(EntityInputs({<<>>}, {TRUE}), MaxBatch) :
       CreateEntities(batch, AllGoodEnv)
  \/ \E query \in Queries, options \in SearchOptions, env \in SearchEnvs :
       Search(query, options, env)
  \/ Acknowledge

SpecSearch == InitSearch /\ [][NextSearch]_vars

\* C7: a search that asked for semantic or hybrid search and met a rejected
\* embedding generation, provider semantic search or vector search does not
\* reject: it returns what searchNodes returns for the query.
C7_SearchFailsSoft ==
  (/\ last.op = "search"
   /\ last.arg.options.semanticSearch \/ last.arg.options.hybridSearch
   /\ last.ret.failed # {}) =>
    /\ last.ok
    /\ last.ret.graph = SearchNodes(last.pre, last.arg.query)

\* The part of C7 the code keeps: a rejected generateEmbedding gives the keyword result.
C7_EmbeddingFailureFallsBack ==
  (last.op = "search" /\ "generateEmbedding" \in last.ret.failed) =>
    last.ok /\ last.ret.graph = SearchNodes(last.pre, last.arg.query)

\* C11: on the file-backed store every stored relation's from and to are names
\* of stored entities; createRelations with a missing endpoint is rejected and
\* stores nothing; after deleteEntities no stored relation touches a deleted
\* name.
C11_ReferentialIntegrity ==
  ~cfg.provider =>
    /\ \A i \in DOMAIN CurrentGraph.relations :
         /\ CurrentGraph.relations[i].from \in EntityNames(CurrentGraph)
         /\ CurrentGraph.relations[i].to \in EntityNames(CurrentGraph)
    /\ (/\ last.op = "createRelations"
        /\ \E i \in DOMAIN last.arg : \/ last.arg[i].from \notin EntityNames(last.pre)
                                      \/ last.arg[i].to \notin EntityNames(last.pre)) =>
         last.err = "entity not found" /\ CurrentGraph = last.pre
    /\ (last.op = "deleteEntities") =>
         \A i \in DOMAIN CurrentGraph.relations :
           /\ CurrentGraph.relations[i].from \notin Range(last.arg)
           /\ CurrentGraph.relations[i].to \notin Range(last.arg)

\* deleteEntities on the file-backed store took a relation of the deleted
\* entity with it and left another relation stored.
C11_DeleteTookRelations ==
  /\ last.op = "deleteEntities" /\ ~cfg.provider
  /\ Len(CurrentGraph.relations) < Len(last.pre.relations)
  /\ CurrentGraph.relations # <<>>

\* ------------------------------------------------------------ observations
InitObservations ==
  /\ cfg \in {c \in Configs : ~c.jobManager}
  /\ file = <<>>
  /\ pgraph = EmptyGraph
  /\ phist = [ent |-> [n \in Names |-> 0], rel |-> [k \in Triples |-> 0]]
  /\ vsReady = FALSE
  /\ vectors = {}
  /\ last = NoCall
  /\ calls = [p \in Procs |-> IdleCall]
  /\ base = EmptyGraph
  /\ embedded = [n \in Names |-> NoEmbedding]
  /\ jobs = <<>>
  /\ svc = NoService
  /\ tr = NoValidity
  /\ factory = NoFactory
  /\ tool = NoTool
  /\ qp = NoAnalysis
  /\ gen = NoBatch
  /\ validator = NoCheck

\* Entities are created, observations are added, and an addObservations call
\* is repeated.
NextObservations ==
  \/ \E batch \in SeqsUpTo(EntityInputs(ObsSeqs, {FALSE}), MaxBatch) :
       CreateEntities(batch, NoEnv)
  \/ \E observations \in SeqsUpTo(ObservationItems, MaxBatch) :
       AddObservations(observations, NoEnv)
  \/ AddObservationsAgain(NoEnv)
  \/ Acknowledge

SpecObservations == InitObservations /\ [][NextObservations]_vars

\* All contents the request gives for entity n, in request order.
RECURSIVE RequestedContents(_, _)
RequestedContents(observations, n) ==
  IF observations = <<>> THEN <<>>
  ELSE (IF Head(observations).entityName = n THEN Head(observations).contents ELSE <<>>)
       \o RequestedContents(Tail(observations), n)

\* The added-lists returned for entity n, one after the other.
RECURSIVE ReturnedAdded(_, _)
ReturnedAdded(results, n) ==
  IF results = <<>> THEN <<>>
  ELSE (IF Head(results).entityName = n THEN Head(results).addedObservations ELSE <<>>)
       \o ReturnedAdded(Tail(results), n)

\* The requested contents that were not among the stored observations of n
\* before the call, each once, in request order.
ExpectedAdded(n) ==
  LET before == Range(EntityData(last.pre, n).observations)
      Fresh(c) == c \notin before
  IN Uniq(SelectSeq(RequestedContents(last.arg, n), Fresh))

\* C12: addObservations returns one added-list per request item; for each
\* entity the added-lists hold exactly the requested contents that were not
\* stored, each once in request order, and exactly those are appended to the
\* stored observations. The same call repeated returns empty added-lists and
\* leaves the store as it was.
C12_AddedListsExact ==
  /\ (last.op \in {"addObservations", "addObservationsAgain"} /\ last.ok) =>
       /\ Len(last.ret) = Len(last.arg)
       /\ \A i \in DOMAIN last.ret : last.ret[i].entityName = last.arg[i].entityName
       /\ \A n \in EntityNames(last.pre) :
            /\ ReturnedAdded(last.ret, n) = ExpectedAdded(n)
            /\ EntityData(CurrentGraph, n).observations =
                 EntityData(last.pre, n).observations \o ExpectedAdded(n)
  /\ (last.op = "addObservationsAgain" /\ last.ok) =>
       /\ \A i \in DOMAIN last.ret : last.ret[i].addedObservations = <<>>
       /\ CurrentGraph = last.pre

\* An addObservations call on the file-backed store that added one content and
\* skipped another that was stored.
C12_AddedSomeSkippedSome ==
  /\ last.op = "addObservations" /\ last.ok /\ ~cfg.provider
  /\ \E i \in DOMAIN last.ret :
       /\ last.ret[i].addedObservations # <<>>
       /\ \E c \in Range(last.arg[i].contents) :
            c \in Range(EntityData(last.pre, last.arg[i].entityName).observations)

\* ------------------------------------------------- force_generate_embedding
\* EmbeddingJobManager._prepareEntityText (job manager not in the sources): the
\* text is made of the entity's name, type and observations.
PrepareEntityText(e) ==
  [name |-> e.name, entityType |-> e.entityType, observations |-> e.observations]

\* The handler up to its await of generateEmbedding: the entity is looked up by
\* name among the opened nodes; the call holds what it read.
ForceRead(p, entityName) ==
  /\ calls[p].pc = "idle"
  /\ calls' = [calls EXCEPT ![p] =
       [pc |-> IF entityName \in EntityNames(CurrentGraph) THEN "read" ELSE "done",
        op |-> "force_generate_embedding", arg |-> entityName, graph |-> CurrentGraph,
        err |-> IF entityName \in EntityNames(CurrentGraph) THEN "none"
                ELSE "entity not found"]]
  /\ UNCHANGED <<cfg, file, pgraph, phist, vsReady, vectors, last, base, embedded, jobs, svc, tr, factory, tool, qp, gen, validator>>

\* The rest of the handler: the vector generated from the text of the entity as
\* it was read is stored under the entity's name.
ForceStore(p, embedOK) ==
  /\ calls[p].pc = "read"
  /\ IF embedOK
     THEN /\ embedded' = [embedded EXCEPT ![calls[p].arg] =
               [has |-> TRUE,
                text |-> PrepareEntityText(EntityData(calls[p].graph, calls[p].arg))]]
          /\ calls' = [calls EXCEPT ![p].pc = "done"]
     ELSE /\ calls' = [calls EXCEPT ![p].pc = "done", ![p].err = "generateEmbedding rejected"]
          /\ UNCHANGED embedded
  /\ UNCHANGED <<cfg, file, pgraph, phist, vsReady, vectors, last, base, jobs, svc, tr, factory, tool, qp, gen, validator>>

InitEmbedding ==
  /\ cfg = [provider |-> TRUE, jobManager |-> TRUE]
  /\ file = <<>>
  /\ pgraph = EmptyGraph
  /\ phist = [ent |-> [n \in Names |-> 0], rel |-> [k \in Triples |-> 0]]
  /\ vsReady = FALSE
  /\ vectors = {}
  /\ last = NoCall
  /\ calls = [p \in Procs |-> IdleCall]
  /\ base = EmptyGraph
  /\ embedded = [n \in Names |-> NoEmbedding]
  /\ jobs = <<>>
  /\ svc = NoService
  /\ tr = NoValidity
  /\ factory = NoFactory
  /\ tool = NoTool
  /\ qp = NoAnalysis
  /\ gen = NoBatch
  /\ validator = NoCheck

\* Entities are created and get observations while force_generate_embedding
\* requests are between their read and their store.
NextEmbedding ==
  \/ \E batch \in SeqsUpTo(EntityInputs({<<>>}, {FALSE}), 1) : CreateEntities(batch, NoEnv)
  \/ \E n \in Names, contents \in OneEntityObs :
       AddObservations(<<[entityName |-> n, contents |-> contents]>>, NoEnv)
  \/ \E p \in Procs, entityName \in Names : ForceRead(p, entityName)
  \/ \E p \in Procs, embedOK \in BOOLEAN : ForceStore(p, embedOK)
  \/ Acknowledge

SpecEmbedding == InitEmbedding /\ [][NextEmbedding]_vars

\* Request p generated and stored an embedding for entity n.
Generated(p, n) ==
  /\ calls[p].pc = "done"
  /\ calls[p].op = "force_generate_embedding"
  /\ calls[p].err = "none"
  /\ calls[p].arg = n

\* C13: once every embedding generation has completed, if one of them was
\* computed from the entity's latest observations then the stored embedding is
\* the one computed from the latest observations: a generation from older
\* content does not overwrite it.
C13_EmbeddingFromLatest ==
  \A n \in EntityNames(CurrentGraph) :
    (/\ \A p \in Procs : calls[p].pc # "read"
     /\ \E p \in Procs :
          /\ Generated(p, n)
          /\ PrepareEntityText(EntityData(calls[p].graph, n)) =
               PrepareEntityText(EntityData(CurrentGraph, n))) =>
      embedded[n] = [has |-> TRUE, text |-> PrepareEntityText(EntityData(CurrentGraph, n))]

\* ------------------------------------------------------ embedding job queue
\* EmbeddingJobManager (not in the sources), after the specification of the
\* embedding job queue. A job is {entityName, status, attempts}.
ActiveJobs(q, n) ==
  {i \in DOMAIN q : q[i].entityName = n /\ q[i].status \in {"pending", "processing"}}

\* schedule without the look-up of an existing job: always a new job.
ScheduleJobAlways(q, n) ==
  Append(q, [entityName |-> n, status |-> "pending", attempts |-> 0])

\* schedule(entityName): coalesced with the entity's pending or processing
\* job when there is one, else a new pending job.
ScheduleJob(q, n) ==
  IF ActiveJobs(q, n) # {} THEN q
  ELSE Append(q, [entityName |-> n, status |-> "pending", attempts |-> 0])

\* The scheduleEntityEmbedding calls of one manager call, in order.
RECURSIVE ScheduleJobs(_, _)
ScheduleJobs(q, names) ==
  IF names = <<>> THEN q
  ELSE ScheduleJobs(ScheduleJob(q, Head(names)), Tail(names))

\* A manager call whose scheduleEntityEmbedding calls reach the queue.
CommitAndSchedule(op, arg, g, out) ==
  /\ last = NoCall
  /\ ApplyStore(op, arg, g, out, {}, {}, 0)
  /\ jobs' = ScheduleJobs(jobs, out.sched)
  /\ Len(jobs') <= MaxJobs

\* The worker claims a pending job. The worker's steps are taken between the
\* recorded calls of the manager.
ClaimJob(i) ==
  /\ last = NoCall
  /\ jobs[i].status = "pending"
  /\ jobs' = [jobs EXCEPT ![i].status = "processing"]
  /\ UNCHANGED <<cfg, file, pgraph, phist, vsReady, vectors, last, calls, base, embedded, svc, tr, factory, tool, qp, gen, validator>>

\* The job's embedding was generated and stored.
CompleteJob(i) ==
  /\ last = NoCall
  /\ jobs[i].status = "processing"
  /\ jobs' = [jobs EXCEPT ![i].status = "completed"]
  /\ UNCHANGED <<cfg, file, pgraph, phist, vsReady, vectors, last, calls, base, embedded, svc, tr, factory, tool, qp, gen, validator>>

\* A failure that is retried for ever: the job goes back to pending whatever
\* its attempts.
FailedJobRetried(job) ==
  [job EXCEPT !.attempts = IF @ < MaxAttempts THEN @ + 1 ELSE @, !.status = "pending"]

\* The job after a failure: one more attempt; pending again, or failed once
\* attempts has reached maxAttempts.
FailedJob(job) ==
  [job EXCEPT !.attempts = @ + 1,
              !.status = IF job.attempts + 1 >= MaxAttempts THEN "failed" ELSE "pending"]

FailJob(i) ==
  /\ last = NoCall
  /\ jobs[i].status = "processing"
  /\ jobs' = [jobs EXCEPT ![i] = FailedJob(jobs[i])]
  /\ UNCHANGED <<cfg, file, pgraph, phist, vsReady, vectors, last, calls, base, embedded, svc, tr, factory, tool, qp, gen, validator>>

InitJobs ==
  /\ cfg \in {c \in Configs : c.jobManager}
  /\ file = <<>>
  /\ pgraph = EmptyGraph
  /\ phist = [ent |-> [n \in Names |-> 0], rel |-> [k \in Triples |-> 0]]
  /\ vsReady = FALSE
  /\ vectors = {}
  /\ last = NoCall
  /\ calls = [p \in Procs |-> IdleCall]
  /\ base = EmptyGraph
  /\ embedded = [n \in Names |-> NoEmbedding]
  /\ jobs = <<>>
  /\ svc = NoService
  /\ tr = NoValidity
  /\ factory = NoFactory
  /\ tool = NoTool
  /\ qp = NoAnalysis
  /\ gen = NoBatch
  /\ validator = NoCheck

\* Requests that add or delete the observation "x".
JobObservationItems == [entityName : Names, contents : {<<"x">>}]

JobDeletionItems == [entityName : Names, observations : {<<"x">>}]

\* The manager's calls schedule jobs; the worker claims them and succeeds or
\* fails.
NextJobs ==
  \/ \E batch \in SeqsUpTo(EntityInputs({<<>>}, {FALSE}), MaxBatch) :
       CommitAndSchedule("createEntities", batch, CurrentGraph,
                         CreateEntitiesCall(CurrentGraph, batch, NoEnv))
  \/ \E observations \in SeqsUpTo(JobObservationItems, MaxBatch) :
       CommitAndSchedule("addObservations", observations, CurrentGraph,
                         AddObservationsCall(CurrentGraph, observations, NoEnv))
  \/ \E deletions \in SeqsUpTo(JobDeletionItems, MaxBatch) :
       CommitAndSchedule("deleteObservations", deletions, CurrentGraph,
                         DeleteObservationsCall(CurrentGraph, deletions, NoEnv))
  \/ \E i \in DOMAIN jobs : ClaimJob(i)
  \/ \E i \in DOMAIN jobs : CompleteJob(i)
  \/ \E i \in DOMAIN jobs : FailJob(i)
  \/ Acknowledge

SpecJobs == InitJobs /\ [][NextJobs]_vars

\* C14: an entity never has two pending-or-processing jobs; a call that names
\* an entity twice, or a call on an entity whose job is waiting, makes no
\* second job; creating one entity leaves exactly one pending job for it.
C14_OneActiveJobPerEntity ==
  /\ [](\A n \in Names : Cardinality(ActiveJobs(jobs, n)) <= 1)
  /\ [][(last.op = "none" /\ last'.op = "createEntities" /\ last'.ok) =>
          \A i \in DOMAIN last'.ret :
            LET n == last'.ret[i].name
                JobsOf(q) == {j \in DOMAIN q : q[j].entityName = n}
            IN  /\ Cardinality(ActiveJobs(jobs', n)) = 1
                /\ JobsOf(jobs) = {} =>
                     /\ Cardinality(JobsOf(jobs')) = 1
                     /\ \A j \in JobsOf(jobs') : jobs'[j].status = "pending"]_vars

\* A deleteObservations call named one entity twice while its job was waiting.
C14_ScheduledTwiceWhileWaiting ==
  /\ last.op = "deleteObservations"
  /\ Len(last.sched) = 2 /\ last.sched[1] = last.sched[2]
  /\ ActiveJobs(jobs, last.sched[1]) # {}
  /\ \E i \in DOMAIN jobs : jobs[i].entityName = last.sched[1] /\ jobs[i].status = "completed"

\* C15: a job goes pending -> processing -> completed, or back to pending on
\* a failure with attempts one higher, until attempts reaches maxAttempts and
\* the job is failed; completed and failed jobs never change again (a new
\* schedule call makes a new job).
C15_JobLifecycle ==
  /\ [](\A i \in DOMAIN jobs :
          /\ jobs[i].attempts <= MaxAttempts
          /\ jobs[i].status = "failed" <=> jobs[i].attempts = MaxAttempts)
  /\ [][\A i \in DOMAIN jobs :
          /\ i \in DOMAIN jobs'
          /\ jobs'[i].entityName = jobs[i].entityName
          /\ \/ jobs'[i] = jobs[i]
             \/ /\ jobs[i].status = "pending" /\ jobs'[i].status = "processing"
                /\ jobs'[i].attempts = jobs[i].attempts
             \/ /\ jobs[i].status = "processing" /\ jobs'[i].status = "completed"
                /\ jobs'[i].attempts = jobs[i].attempts
             \/ /\ jobs[i].status = "processing"
                /\ jobs'[i].attempts = jobs[i].attempts + 1
                /\ jobs'[i].status =
                     IF jobs'[i].attempts = MaxAttempts THEN "failed" ELSE "pending"]_vars

\* A job failed for good, and the job scheduled for the entity afterwards
\* completed after one failure.
C15_FailedThenRescheduledCompleted ==
  \E i, j \in DOMAIN jobs :
    /\ i < j /\ jobs[i].entityName = jobs[j].entityName
    /\ jobs[i].status = "failed" /\ jobs[i].attempts = MaxAttempts
    /\ jobs[j].status = "completed" /\ jobs[j].attempts = 1

\* ------------------------------------------------------ embedding services
\* The embedding field of the provider's HTTP response: missing or not an
\* array, or an array of numbers of any length.
Components == {0, 1, 2}

Responses ==
  {[isArray |-> FALSE, embedding |-> <<>>]}
    \cup {[isArray |-> TRUE, embedding |-> e] : e \in SeqsUpTo(Components, Dimensions + 1)}

RECURSIVE SumSquares(_)
SumSquares(v) == IF v = <<>> THEN 0 ELSE Head(v) * Head(v) + SumSquares(Tail(v))

\* AzureEmbeddingService._normalizeVector: every component divided by the
\* magnitude; a vector of magnitude 0 gets 1 as its first element.
NormalizeVector(v) ==
  IF SumSquares(v) > 0 THEN [num |-> v, densq |-> SumSquares(v)]
  ELSE [num |-> IF v = <<>> THEN <<1>> ELSE [v EXCEPT ![1] = 1], densq |-> 1]

\* AzureEmbeddingService.generateEmbedding: a missing or empty embedding
\* throws; any other is normalized and returned.
AzureGenerateEmbedding(response) ==
  IF ~response.isArray \/ Len(response.embedding) = 0
  THEN [err |-> "invalid embedding", vector |-> NoVector]
  ELSE [err |-> "none", vector |-> NormalizeVector(response.embedding)]

\* OllamaEmbeddingService.generateEmbedding: a non-array throws; a length
\* other than this.dimensions is logged; the embedding is returned as it came.
OllamaGenerateEmbedding(response) ==
  IF ~response.isArray
  THEN [err |-> "invalid embedding", vector |-> NoVector]
  ELSE [err |-> "none", vector |-> [num |-> response.embedding, densq |-> 1]]

\* embeddingService.generateEmbedding(embeddingText) returns or throws.
GenerateEmbedding ==
  /\ svc.at = "called"
  /\ LET out == IF svc.kind = "azure" THEN AzureGenerateEmbedding(svc.response)
                ELSE OllamaGenerateEmbedding(svc.response)
     IN  svc' = [svc EXCEPT !.at = "returned", !.err = out.err, !.vector = out.vector]
  /\ UNCHANGED <<cfg, file, pgraph, phist, vsReady, vectors, last, calls, base, embedded, jobs, tr, factory, tool, qp, gen, validator>>

\* force_generate_embedding after the service returned: the vector goes to
\* storageProvider.storeEntityVector; a throw ends the request.
StoreEntityVector ==
  /\ svc.at = "returned"
  /\ svc' = [svc EXCEPT !.at = IF svc.err = "none" THEN "stored" ELSE "failed",
                        !.stored = IF svc.err = "none" THEN svc.vector ELSE @]
  /\ UNCHANGED <<cfg, file, pgraph, phist, vsReady, vectors, last, calls, base, embedded, jobs, tr, factory, tool, qp, gen, validator>>

\* A service of either kind configured with Dimensions, about to receive any
\* of the responses.
InitService ==
  /\ cfg = [provider |-> TRUE, jobManager |-> TRUE]
  /\ file = <<>>
  /\ pgraph = EmptyGraph
  /\ phist = [ent |-> [n \in Names |-> 0], rel |-> [k \in Triples |-> 0]]
  /\ vsReady = FALSE
  /\ vectors = {}
  /\ last = NoCall
  /\ calls = [p \in Procs |-> IdleCall]
  /\ base = EmptyGraph
  /\ embedded = [n \in Names |-> NoEmbedding]
  /\ jobs = <<>>
  /\ svc \in {[NoService EXCEPT !.kind = k, !.response = r, !.at = "called"] :
                k \in {"azure", "ollama"}, r \in Responses}
  /\ tr = NoValidity
  /\ factory = NoFactory
  /\ tool = NoTool
  /\ qp = NoAnalysis
  /\ gen = NoBatch
  /\ validator = NoCheck

NextService == GenerateEmbedding \/ StoreEntityVector

SpecService == InitService /\ [][NextService]_vars

\* C16: a vector that generateEmbedding returned, and a vector stored as an
\* entity's embedding, has the configured number of dimensions.
C16_OnlyConfiguredLength ==
  /\ (svc.at \in {"returned", "stored"} /\ svc.err = "none") =>
       Len(svc.vector.num) = Dimensions
  /\ svc.at = "stored" => Len(svc.stored.num) = Dimensions

\* C17: every vector that generateEmbedding returned has unit L2 norm.
C17_ReturnedVectorsAreUnit ==
  (svc.at \in {"returned", "stored"} /\ svc.err = "none") =>
    SumSquares(svc.vector.num) = svc.vector.densq

\* ------------------------------------------------------ validity intervals
\* TemporalRelationValidator.isCurrentlyValid(obj, now) for a temporal
\* relation obj.
IsCurrentlyValid(obj, now) ==
  IF obj.validFrom # Undefined /\ now < obj.validFrom THEN FALSE
  ELSE IF obj.validTo # Undefined /\ now > obj.validTo THEN FALSE
  ELSE TRUE

\* The versions of one relation: each version's validTo is the next
\* version's validFrom; the newest version has a validTo or none.
VersionChain(bounds, open) ==
  [i \in 1..(IF open THEN Len(bounds) ELSE Len(bounds) - 1) |->
     [validFrom |-> bounds[i],
      validTo |-> IF i < Len(bounds) THEN bounds[i + 1] ELSE Undefined]]

VersionChains ==
  {VersionChain(b, open) :
     b \in {c \in SeqsUpTo(0..MaxTime, MaxVersions + 1) :
              \A i \in 1..(Len(c) - 1) : c[i] <= c[i + 1]},
     open \in BOOLEAN} \ {<<>>}

\* isCurrentlyValid asked of every version at the time tr.now.
IsCurrentlyValidCall ==
  /\ tr.at = "asked"
  /\ tr' = [tr EXCEPT !.at = "answered",
                      !.valid = {i \in DOMAIN tr.versions :
                                   IsCurrentlyValid(tr.versions[i], tr.now)}]
  /\ UNCHANGED <<cfg, file, pgraph, phist, vsReady, vectors, last, calls, base, embedded, jobs, svc, factory, tool, qp, gen, validator>>

InitValidity ==
  /\ cfg = [provider |-> TRUE, jobManager |-> FALSE]
  /\ file = <<>>
  /\ pgraph = EmptyGraph
  /\ phist = [ent |-> [n \in Names |-> 0], rel |-> [k \in Triples |-> 0]]
  /\ vsReady = FALSE
  /\ vectors = {}
  /\ last = NoCall
  /\ calls = [p \in Procs |-> IdleCall]
  /\ base = EmptyGraph
  /\ embedded = [n \in Names |-> NoEmbedding]
  /\ jobs = <<>>
  /\ svc = NoService
  /\ tr \in {[NoValidity EXCEPT !.versions = v, !.now = t, !.at = "asked"] :
               v \in VersionChains, t \in 0..MaxTime}
  /\ factory = NoFactory
  /\ tool = NoTool
  /\ qp = NoAnalysis
  /\ gen = NoBatch
  /\ validator = NoCheck

SpecValidity == InitValidity /\ [][IsCurrentlyValidCall]_vars

\* C18: of the consecutive versions of a relation at most one is valid at
\* any time; at t = validTo the older version is not valid; no version is
\* valid before its validFrom; a version without validTo is valid from its
\* validFrom on.
C18_IntervalsHalfOpen ==
  tr.at = "answered" =>
    /\ Cardinality(tr.valid) <= 1
    /\ \A i \in DOMAIN tr.versions :
         LET v == tr.versions[i]
         IN  /\ tr.now < v.validFrom => i \notin tr.valid
             /\ (v.validTo # Undefined /\ tr.now = v.validTo) => i \notin tr.valid
             /\ (v.validTo = Undefined /\ tr.now >= v.validFrom) => i \in tr.valid

\* ------------------------------------------------ embedding service factory
\* process.env as createFromEnvironment reads it: MOCK_EMBEDDINGS is 'true',
\* EMBEDDING_PROVIDER in lower case, which of the credentials are set, and
\* whether the constructors of the three services succeed.
Environments ==
  [mock : BOOLEAN, provider : {"unset", "ollama", "openai", "azure", "other"},
   azureKey : BOOLEAN, azureEndpoint : BOOLEAN, azureModel : BOOLEAN,
   openaiKey : BOOLEAN, openaiOK : BOOLEAN, azureOK : BOOLEAN, ollamaOK : BOOLEAN]

AzureComplete(e) == e.azureKey /\ e.azureEndpoint /\ e.azureModel

\* EmbeddingServiceFactory.createFromEnvironment: the class of the service
\* returned.
\* createFromEnvironment that looks at EMBEDDING_PROVIDER before
\* MOCK_EMBEDDINGS.
CreateFromEnvironmentProviderFirst(e) ==
  IF e.provider = "ollama" THEN (IF e.ollamaOK THEN "ollama" ELSE "default")
  ELSE IF e.mock THEN "default"
  ELSE IF e.provider = "openai" /\ ~e.openaiKey THEN "default"
  ELSE IF e.provider = "azure" /\ ~AzureComplete(e) THEN "default"
  ELSE IF AzureComplete(e) /\ e.azureOK THEN "azure"
  ELSE IF e.openaiKey THEN (IF e.openaiOK THEN "openai" ELSE "default")
  ELSE "default"

CreateFromEnvironment(e) ==
  IF e.mock THEN "default"
  ELSE IF e.provider = "ollama" THEN (IF e.ollamaOK THEN "ollama" ELSE "default")
  ELSE IF e.provider = "openai" /\ ~e.openaiKey THEN "default"
  ELSE IF e.provider = "azure" /\ ~AzureComplete(e) THEN "default"
  ELSE IF AzureComplete(e) /\ e.azureOK THEN "azure"
  ELSE IF e.openaiKey THEN (IF e.openaiOK THEN "openai" ELSE "default")
  ELSE "default"

CreateFromEnvironmentCall ==
  /\ factory.at = "called"
  /\ factory' = [factory EXCEPT !.at = "created",
                                !.service = CreateFromEnvironment(factory.env)]
  /\ UNCHANGED <<cfg, file, pgraph, phist, vsReady, vectors, last, calls, base, embedded, jobs, svc, tr, tool, qp, gen, validator>>

InitFactory ==
  /\ cfg = [provider |-> TRUE, jobManager |-> TRUE]
  /\ file = <<>>
  /\ pgraph = EmptyGraph
  /\ phist = [ent |-> [n \in Names |-> 0], rel |-> [k \in Triples |-> 0]]
  /\ vsReady = FALSE
  /\ vectors = {}
  /\ last = NoCall
  /\ calls = [p \in Procs |-> IdleCall]
  /\ base = EmptyGraph
  /\ embedded = [n \in Names |-> NoEmbedding]
  /\ jobs = <<>>
  /\ svc = NoService
  /\ tr = NoValidity
  /\ factory \in {[NoFactory EXCEPT !.env = e, !.at = "called"] : e \in Environments}
  /\ tool = NoTool
  /\ qp = NoAnalysis
  /\ gen = NoBatch
  /\ validator = NoCheck

SpecFactory == InitFactory /\ [][CreateFromEnvironmentCall]_vars

\* C19: without the mock flag and with working constructors, a requested
\* provider whose configuration is complete is the one created, whatever
\* other credentials are set; with no provider requested Azure is created if
\* its credentials are complete, else OpenAI if its key is set, else the
\* default service.
C19_ProviderPriority ==
  LET e == factory.env
  IN  (factory.at = "created" /\ ~e.mock /\ e.openaiOK /\ e.azureOK /\ e.ollamaOK) =>
        /\ e.provider = "ollama" => factory.service = "ollama"
        /\ (e.provider = "azure" /\ AzureComplete(e)) => factory.service = "azure"
        /\ (e.provider = "openai" /\ e.openaiKey) => factory.service = "openai"
        /\ e.provider = "unset" =>
             factory.service = IF AzureComplete(e) THEN "azure"
                               ELSE IF e.openaiKey THEN "openai" ELSE "default"

\* ---------------------------------------------------------- read operations
\* The provider's side of a read (provider not in the sources): what it
\* returns. getDecayedGraph returns the relations with a decayed confidence
\* beside them; the histories are given by their number of versions.
ProviderRead(op, arg, g) ==
  CASE op = "searchNodes" -> ProviderSearchNodes(g, arg.query)
    [] op = "openNodes" -> OpenNodes(g, arg.names)
    [] op = "getRelation" -> GetRelation(g, arg)
    [] op = "getDecayedGraph" ->
         [entities |-> g.entities,
          relations |-> [i \in DOMAIN g.relations |->
                           [relation |-> g.relations[i], confidence |-> "decayed"]]]
    [] op = "getEntityHistory" -> [versions |-> phist.ent[arg.entityName]]
    [] op = "getRelationHistory" -> [versions |-> phist.rel[RelationKey(arg)]]
    [] OTHER -> g

\* A read that also writes the store.
ReadCallSaving(op, arg, g, has) ==
  Out("none", g, EmptyGraph, TRUE, <<>>, vectors, vsReady, <<>>)

\* readGraph, searchNodes, openNodes, getRelation, getDecayedGraph,
\* getEntityHistory, getRelationHistory, getGraphAtTime; has: the provider
\* has the optional method.
ReadCall(op, arg, g, has) ==
  LET Returns(ret) == Out("none", ret, g, FALSE, <<>>, vectors, vsReady, <<>>)
      Throws(err) == Out(err, <<>>, g, FALSE, <<>>, vectors, vsReady, <<>>)
  IN CASE op = "readGraph" -> Returns(g)
       [] op = "searchNodes" -> Returns(SearchNodes(g, arg.query))
       [] op = "openNodes" ->
            Returns(IF cfg.provider THEN ProviderRead(op, arg, g) ELSE OpenNodes(g, arg.names))
       [] op = "getRelation" ->
            Returns(IF cfg.provider /\ has THEN ProviderRead(op, arg, g) ELSE GetRelation(g, arg))
       [] OTHER ->
            IF ~cfg.provider \/ ~has THEN Throws("not supported")
            ELSE Returns(ProviderRead(op, arg, g))

Read(op, arg, has) ==
  Commit(op, arg, CurrentGraph, ReadCall(op, arg, CurrentGraph, has), {}, {}, 0)

\* Entities and relations are stored and updated, then read.
NextReads ==
  \/ \E batch \in SeqsUpTo(EntityInputs({<<>>}, {FALSE}), MaxBatch) :
       CreateEntities(batch, NoEnv)
  \/ \E relations \in SeqsUpTo(RelationInputs, MaxBatch) : CreateRelations(relations)
  \/ \E relation \in RelationInputs : UpdateRelation(relation)
  \/ Read("readGraph", <<>>, TRUE)
  \/ \E query \in Queries : Read("searchNodes", [query |-> query], TRUE)
  \/ \E names \in SUBSET Names : Read("openNodes", [names |-> names], TRUE)
  \/ \E q \in RelationInputs, has \in BOOLEAN : Read("getRelation", q, has)
  \/ \E has \in BOOLEAN : Read("getDecayedGraph", <<>>, has)
  \/ \E n \in Names, has \in BOOLEAN : Read("getEntityHistory", [entityName |-> n], has)
  \/ \E q \in RelationInputs, has \in BOOLEAN : Read("getRelationHistory", q, has)
  \/ \E t \in 0..MaxTime, has \in BOOLEAN : Read("getGraphAtTime", [timestamp |-> t], has)
  \/ \E query \in Queries, options \in SearchOptions :
       Search(query, options, [hasService |-> FALSE, hasSemanticSearch |-> FALSE,
                               embedOK |-> TRUE, semOK |-> TRUE, vsSearchOK |-> TRUE,
                               vsInitOK |-> FALSE])
  \/ Acknowledge

SpecReads == InitRelations /\ [][NextReads]_vars

ReadOps ==
  {"readGraph", "searchNodes", "openNodes", "getRelation", "getDecayedGraph",
   "getEntityHistory", "getRelationHistory", "getGraphAtTime", "search"}

\* C20: a read operation leaves the memory file, the provider's graph (the
\* stored confidence and strength of every relation with it) and the version
\* histories exactly as they were.
C20_ReadsLeaveStore ==
  [][(last.op = "none" /\ last'.op \in ReadOps) =>
       file' = file /\ pgraph' = pgraph /\ phist' = phist]_vars

\* getDecayedGraph returned the decayed relations of a store that has some.
C20_DecayedGraphRead ==
  /\ last.op = "getDecayedGraph"
  /\ last.ok
  /\ last.pre.relations # <<>>
  /\ last.ret.relations # last.pre.relations
  /\ CurrentGraph = last.pre

\* -------------------------------------------------------------- tool calls
\* The tools of the switch in handleCallToolRequest, and a name it does not
\* know.
DebugTools == {"force_generate_embedding", "debug_embedding_config", "diagnose_vector_search"}

TemporalTools ==
  {"get_entity_history", "get_relation_history", "get_graph_at_time", "get_decayed_graph"}

BaseTools ==
  {"create_entities", "read_graph", "create_relations", "add_observations", "delete_entities",
   "delete_observations", "delete_relations", "get_relation", "update_relation", "search_nodes",
   "open_nodes", "semantic_search", "get_entity_embedding"}

\* request.params.arguments for each tool; a number left out is Undefined,
\* min_similarity and semantic_weight are in tenths.
ToolArguments(name) ==
  CASE name = "get_decayed_graph" ->
         [reference_time : {Undefined, 0, 1, 2}, decay_factor : {Undefined, 0, 1}]
    [] name = "semantic_search" ->
         [limit : {Undefined, 0, 5}, min_similarity : {Undefined, 0, 3, 10},
          semantic_weight : {Undefined, 0, 10}, hybrid_search : {"absent", "true", "false"}]
    [] name = "add_observations" ->
         [observations : SeqsUpTo(JobObservationItems, MaxBatch)]
    [] name = "force_generate_embedding" -> [entity_name : Names \cup {""}]
    [] OTHER -> {[given |-> TRUE]}

\* The requests: params, the tool name or arguments possibly missing.
ToolRequests ==
  UNION {[hasParams : BOOLEAN, name : {name}, hasArgs : BOOLEAN, args : ToolArguments(name)] :
           name \in BaseTools \cup TemporalTools \cup DebugTools \cup {"", "unknown_tool"}}

\* KnowledgeGraphManager.getDecayedGraph(): it takes no parameter and calls
\* storageProvider.getDecayedGraph() without one.
ManagerGetDecayedGraph(options) == [referenceTime |-> Undefined, decayFactor |-> Undefined]

\* handleAddObservations: each item rebuilt from entityName and contents,
\* with strength, confidence and metadata added (in hundredths).
ProcessedObservations(observations) ==
  [i \in DOMAIN observations |->
     [entityName |-> observations[i].entityName, contents |-> observations[i].contents,
      strength |-> 90, confidence |-> 95, metadata |-> [source |-> "API call"]]]

\* handleCallToolRequest(request, knowledgeGraphManager): it throws (outcome
\* "error") or returns content (outcome "success") whose text is a result, a
\* fixed message or an error message; calls are the operations invoked on the
\* manager, the provider and the embedding service. env.managerOK: those
\* operations resolve; otherwise the first one rejects.
HandleCallToolRequest(request, env) ==
  LET name == request.name
      args == request.args
      Truthy(x) == x # Undefined /\ x # 0
      Call(op, arg) == [op |-> op, arg |-> arg]
      Throws(invoked) == [outcome |-> "error", text |-> "error", calls |-> invoked]
      Content(text, invoked) == [outcome |-> "success", text |-> text, calls |-> invoked]
      \* await manager.op(arg) outside any try: a rejection is rethrown
      Plain(op, text) ==
        IF env.managerOK THEN Content(text, <<Call(op, args)>>) ELSE Throws(<<Call(op, args)>>)
      \* the same inside try/catch: a rejection becomes content
      Caught(invoked) == Content(IF env.managerOK THEN "result" ELSE "error message", invoked)
      options == [referenceTime |-> IF Truthy(args.reference_time)
                                    THEN args.reference_time ELSE Undefined,
                  decayFactor |-> IF Truthy(args.decay_factor)
                                  THEN args.decay_factor ELSE Undefined]
      searchOptions ==
        [limit |-> IF Truthy(args.limit) THEN args.limit ELSE 10,
         minSimilarity |-> IF Truthy(args.min_similarity) THEN args.min_similarity ELSE 6,
         hybridSearch |-> IF args.hybrid_search # "absent" THEN args.hybrid_search ELSE "true",
         semanticWeight |-> IF Truthy(args.semantic_weight) THEN args.semantic_weight ELSE 6,
         semanticSearch |-> "true"]
  IN IF ~request.hasParams \/ name = "" \/ ~request.hasArgs THEN Throws(<<>>)
     ELSE CASE name \in {"create_entities", "read_graph", "create_relations", "get_relation",
                         "search_nodes", "open_nodes"} -> Plain(name, "result")
            [] name \in {"delete_entities", "delete_observations", "delete_relations",
                         "update_relation"} -> Plain(name, "message")
            [] name = "add_observations" ->
                 Caught(<<Call("addObservations",
                               [observations |-> ProcessedObservations(args.observations)])>>)
            [] name \in {"get_entity_history", "get_relation_history", "get_graph_at_time"} ->
                 Caught(<<Call(name, args)>>)
            [] name = "get_decayed_graph" ->
                 Caught(<<Call("getDecayedGraph", options)>>
                          \o IF env.managerOK
                             THEN <<Call("storageProvider.getDecayedGraph",
                                         ManagerGetDecayedGraph(options))>>
                             ELSE <<>>)
            [] name = "semantic_search" -> Caught(<<Call("search", searchOptions)>>)
            [] name = "get_entity_embedding" -> Caught(<<Call("openNodes", args)>>)
            [] name = "force_generate_embedding" ->
                 IF args.entity_name = "" THEN Throws(<<>>)
                 ELSE Caught(<<Call("openNodes", args)>>
                               \o IF env.managerOK
                                  THEN <<Call("generateEmbedding", args),
                                         Call("storeEntityVector", args)>>
                                  ELSE <<>>)
            [] name = "debug_embedding_config" ->
                 Content("result", <<Call("countEntitiesWithEmbeddings", args)>>)
            [] name = "diagnose_vector_search" -> Plain("diagnoseVectorSearch", "result")
            [] OTHER -> Throws(<<>>)

\* A CallTool request is handled.
CallTool(request, env) ==
  /\ tool = NoTool
  /\ tool' = [at |-> "done", request |-> request, env |-> env,
              response |-> HandleCallToolRequest(request, env)]
  /\ UNCHANGED <<cfg, file, pgraph, phist, vsReady, vectors, last, calls, base, embedded, jobs, svc, tr, factory, qp, gen, validator>>

\* handleListToolsRequest: the debug tools are listed when DEBUG is 'true'.
ListTools(env) ==
  /\ tool = NoTool
  /\ tool' = [at |-> "listed", env |-> env,
              tools |-> BaseTools \cup TemporalTools \cup (IF env.debug THEN DebugTools ELSE {})]
  /\ UNCHANGED <<cfg, file, pgraph, phist, vsReady, vectors, last, calls, base, embedded, jobs, svc, tr, factory, qp, gen, validator>>

NextTools ==
  \/ \E request \in ToolRequests, env \in [debug : BOOLEAN, managerOK : BOOLEAN] :
       CallTool(request, env)
  \/ \E env \in [debug : BOOLEAN, managerOK : {TRUE}] : ListTools(env)

SpecTools == InitRelations /\ [][NextTools]_vars

\* A request with params, a tool name and arguments, handled.
Handled(name) ==
  /\ tool.at = "done"
  /\ tool.request.hasParams /\ tool.request.hasArgs
  /\ tool.request.name = name

\* C21: a reference_time or decay_factor supplied to get_decayed_graph is the
\* one the provider's decay computation is called with.
C21_DecayOptionsReachProvider ==
  (Handled("get_decayed_graph") /\ tool.env.managerOK) =>
    \E i \in DOMAIN tool.response.calls :
      /\ tool.response.calls[i].op = "storageProvider.getDecayedGraph"
      /\ tool.request.args.reference_time # Undefined =>
           tool.response.calls[i].arg.referenceTime = tool.request.args.reference_time
      /\ tool.request.args.decay_factor # Undefined =>
           tool.response.calls[i].arg.decayFactor = tool.request.args.decay_factor

\* C22: semantic_search calls search with the caller's limit, min_similarity,
\* semantic_weight and hybrid_search when they are supplied, and with 10,
\* 0.6, 0.6 and true when they are absent.
C22_SearchOptionsVerbatim ==
  Handled("semantic_search") =>
    LET a == tool.request.args
        o == tool.response.calls[1].arg
    IN  /\ o.limit = IF a.limit # Undefined THEN a.limit ELSE 10
        /\ o.minSimilarity = IF a.min_similarity # Undefined THEN a.min_similarity ELSE 6
        /\ o.semanticWeight = IF a.semantic_weight # Undefined THEN a.semantic_weight ELSE 6
        /\ o.hybridSearch = IF a.hybrid_search # "absent" THEN a.hybrid_search ELSE "true"

\* C23: a handled request ends in a success payload or an error; a rejected
\* manager operation gives an error; a request without params, tool name or
\* arguments, or with an unknown tool name, gives an error and no call.
C23_SuccessOrError ==
  tool.at = "done" =>
    /\ tool.response.outcome \in {"success", "error"}
    /\ (tool.response.calls # <<>> /\ ~tool.env.managerOK) => tool.response.outcome = "error"
    /\ (\/ ~tool.request.hasParams \/ ~tool.request.hasArgs
        \/ tool.request.name \in {"", "unknown_tool"}) =>
         tool.response.outcome = "error" /\ tool.response.calls = <<>>

\* C24: the debug tools are listed exactly when DEBUG is 'true', and a call
\* of one of them while DEBUG is not 'true' invokes nothing.
C24_DebugToolsOnlyInDebug ==
  /\ tool.at = "listed" =>
       IF tool.env.debug THEN DebugTools \subseteq tool.tools
       ELSE DebugTools \cap tool.tools = {}
  /\ (tool.at = "done" /\ tool.request.name \in DebugTools /\ ~tool.env.debug) =>
       tool.response.calls = <<>>

\* C25: add_observations calls addObservations once, with the observations
\* of the request as they are, and returns the manager's result.
C25_AddObservationsPassedThrough ==
  Handled("add_observations") =>
    /\ Len(tool.response.calls) = 1
    /\ tool.response.calls[1].op = "addObservations"
    /\ tool.response.calls[1].arg.observations = tool.request.args.observations
    /\ tool.env.managerOK => tool.response.outcome = "success" /\ tool.response.text = "result"

(***************************************************************************)
(* QueryPreprocessor.  A string is a sequence of one-character strings.    *)
(***************************************************************************)
MaxTerms == 3

Whitespace == {" ", "\t"}

\* String.prototype.toLowerCase on the letters the queries are written in.
ToLowerCase(s) ==
    [i \in 1..Len(s) |-> CASE s[i] = "C" -> "c"
                           [] s[i] = "T" -> "t"
                           [] OTHER -> s[i]]

\* String.prototype.trim
RECURSIVE Trim(_)
Trim(s) ==
    IF s = <<>> THEN s
    ELSE IF Head(s) \in Whitespace THEN Trim(Tail(s))
    ELSE IF s[Len(s)] \in Whitespace THEN Trim(SubSeq(s, 1, Len(s) - 1))
    ELSE s

\* replace(/\s+/g, ' '): every maximal run of whitespace becomes one space.
RECURSIVE CollapseWhitespace(_)
CollapseWhitespace(s) ==
    IF s = <<>> THEN s
    ELSE IF Head(s) \in Whitespace
         THEN IF Len(s) > 1 /\ s[2] \in Whitespace
              THEN CollapseWhitespace(Tail(s))
              ELSE <<" ">> \o CollapseWhitespace(Tail(s))
         ELSE <<Head(s)>> \o CollapseWhitespace(Tail(s))

normalizeQueryUntrimmed(query) == ToLowerCase(CollapseWhitespace(query))

normalizeQuery(query) == ToLowerCase(CollapseWhitespace(Trim(query)))

\* split(/\s+/): the pieces between maximal runs of whitespace, the empty
\* pieces before a leading run and after a trailing run included.
RECURSIVE SplitWhitespace(_, _)
SplitWhitespace(s, piece) ==
    IF s = <<>> THEN <<piece>>
    ELSE IF Head(s) \in Whitespace
         THEN IF Len(s) > 1 /\ s[2] \in Whitespace
              THEN SplitWhitespace(Tail(s), piece)
              ELSE <<piece>> \o SplitWhitespace(Tail(s), <<>>)
         ELSE SplitWhitespace(Tail(s), Append(piece, Head(s)))

extractTerms(query) ==
    SelectSeq(SplitWhitespace(query, <<>>), LAMBDA term : Len(term) > 0)

\* Template literal `${a} ${b}` and its iteration over a list of terms.
RECURSIVE JoinSpace(_)
JoinSpace(terms) ==
    IF terms = <<>> THEN <<>>
    ELSE IF Len(terms) = 1 THEN terms[1]
    ELSE terms[1] \o <<" ">> \o JoinSpace(Tail(terms))

\* An exact quotient; the division is carried out only where the code divides.
Divide(num, den) == [num |-> num, den |-> den]

Zero == Divide(0, 1)

One == Divide(1, 1)

analyzeComplexityUnguarded(terms, options) ==
    IF Len(terms) >= options.complexityThreshold THEN One
    ELSE Divide(Len(terms) - 1, options.complexityThreshold - 1)

analyzeComplexity(terms, options) ==
    IF Len(terms) <= 1 THEN Zero
    ELSE IF Len(terms) >= options.complexityThreshold THEN One
    ELSE Divide(Len(terms) - 1, options.complexityThreshold - 1)

Bigrams(terms) ==
    [i \in 1..(Len(terms) - 1) |-> JoinSpace(<<terms[i], terms[i + 1]>>)]

SignificantTerms(terms) == SelectSeq(terms, LAMBDA term : Len(term) >= 5)

decomposeQueryKeepingDuplicates(query, terms) ==
    IF Len(terms) >= 3
    THEN <<query>> \o Bigrams(terms) \o SignificantTerms(terms)
    ELSE <<query>>

decomposeQuery(query, terms) ==
    IF Len(terms) >= 3
    THEN Uniq(<<query>> \o Bigrams(terms) \o SignificantTerms(terms))
    ELSE Uniq(<<query>>)

shouldUseMultiVector(terms) == Len(terms) >= 3

stopWords ==
    { <<"t","h","e">>, <<"a">>, <<"a","n">>, <<"a","n","d">>, <<"o","r">>,
      <<"b","u","t">>, <<"i","n">>, <<"o","n">>, <<"a","t">>, <<"t","o">>,
      <<"f","o","r">> }

\* Array.prototype.sort with (a, b) => b.length - a.length: a stable sort,
\* longer terms first.
RECURSIVE SortByLength(_)
SortByLength(terms) ==
    IF terms = <<>> THEN <<>>
    ELSE LET sorted == SortByLength(SubSeq(terms, 1, Len(terms) - 1))
             final  == terms[Len(terms)]
             before == SelectSeq(sorted, LAMBDA t : Len(t) >= Len(final))
             after  == SelectSeq(sorted, LAMBDA t : Len(t) < Len(final))
         IN  before \o <<final>> \o after

extractKeyTermsOfAnyLength(terms) ==
    SortByLength(SelectSeq(terms, LAMBDA term : ToLowerCase(term) \notin stopWords))

extractKeyTerms(terms) ==
    SortByLength(SelectSeq(terms,
        LAMBDA term : ToLowerCase(term) \notin stopWords /\ Len(term) > 2))

(***************************************************************************)
(* Number arithmetic.  A Number is an IEEE 754 double: sign, significand   *)
(* of at most MantissaBits bits and exponent, every operation rounded to   *)
(* nearest, ties to even.  A significand is a sequence of bits, least      *)
(* significant first, without high zero bits; the value of [neg, m, e] is  *)
(* (+/-) m * 2^e.  The thresholds are far from the subnormal and overflow  *)
(* ranges, so the exponent is unbounded here.                              *)
(***************************************************************************)
MantissaBits == 53

RECURSIVE StripHigh(_)
StripHigh(m) ==
    IF m # <<>> /\ m[Len(m)] = 0 THEN StripHigh(SubSeq(m, 1, Len(m) - 1)) ELSE m

RECURSIVE BitsAdd(_, _, _)
BitsAdd(a, b, carry) ==
    IF a = <<>> /\ b = <<>> THEN (IF carry = 1 THEN <<1>> ELSE <<>>)
    ELSE LET x == IF a = <<>> THEN 0 ELSE Head(a)
             y == IF b = <<>> THEN 0 ELSE Head(b)
             sum == x + y + carry
         IN  <<sum % 2>> \o BitsAdd(IF a = <<>> THEN a ELSE Tail(a),
                                    IF b = <<>> THEN b ELSE Tail(b),
                                    sum \div 2)

\* a - b for a >= b
RECURSIVE BitsSub(_, _, _)
BitsSub(a, b, borrow) ==
    IF a = <<>> THEN <<>>
    ELSE LET y == IF b = <<>> THEN 0 ELSE Head(b)
             diff == Head(a) - y - borrow
         IN  <<diff % 2>> \o BitsSub(Tail(a),
                                     IF b = <<>> THEN b ELSE Tail(b),
                                     IF diff < 0 THEN 1 ELSE 0)

BitsLess(a, b) ==
    \/ Len(a) < Len(b)
    \/ /\ Len(a) = Len(b)
       /\ \E i \in 1..Len(a) :
            /\ a[i] < b[i]
            /\ \A j \in (i + 1)..Len(a) : a[j] = b[j]

RECURSIVE ShiftLeft(_, _)
ShiftLeft(m, n) == IF n = 0 \/ m = <<>> THEN m ELSE ShiftLeft(<<0>> \o m, n - 1)

\* The canonical form of a value: no high zero bits, no low zero bits.
RECURSIVE Canonical(_)
Canonical(x) ==
    IF x.m = <<>> THEN [neg |-> FALSE, m |-> <<>>, e |-> 0]
    ELSE IF x.m[Len(x.m)] = 0 THEN Canonical([x EXCEPT !.m = StripHigh(x.m)])
    ELSE IF Head(x.m) = 0 THEN Canonical([x EXCEPT !.m = Tail(x.m), !.e = x.e + 1])
    ELSE x

\* Rounding of an exact value to a double: nearest, ties to even.
RoundToNumber(exact) ==
    LET x == Canonical(exact)
        d == Len(x.m) - MantissaBits
    IN  IF d <= 0 THEN x
        ELSE LET kept   == SubSeq(x.m, d + 1, Len(x.m))
                 guard  == x.m[d]
                 sticky == \E i \in 1..(d - 1) : x.m[i] = 1
                 up     == guard = 1 /\ (sticky \/ kept[1] = 1)
             IN  Canonical([neg |-> x.neg,
                            m   |-> IF up THEN BitsAdd(kept, <<1>>, 0) ELSE kept,
                            e   |-> x.e + d])

\* The bits of r/10 after the binary point, most significant first, followed
\* by one bit that tells whether anything is left.
RECURSIVE TenthsBits(_, _)
TenthsBits(r, n) ==
    IF n = 0 THEN <<IF r = 0 THEN 0 ELSE 1>>
    ELSE <<(2 * r) \div 10>> \o TenthsBits((2 * r) % 10, n - 1)

Reverse(s) == [i \in 1..Len(s) |-> s[Len(s) + 1 - i]]

\* The Number a decimal literal d/10 denotes, 0 <= d <= 10.
NumberOfTenths(d) ==
    IF d = 10 THEN [neg |-> FALSE, m |-> <<1>>, e |-> 0]
    ELSE RoundToNumber([neg |-> FALSE,
                        m   |-> Reverse(TenthsBits(d, MantissaBits + 6)),
                        e   |-> 0 - (MantissaBits + 7)])

\* x - y
NumberMinus(x, y) ==
    LET e  == IF x.e < y.e THEN x.e ELSE y.e
        mx == ShiftLeft(x.m, x.e - e)
        my == ShiftLeft(y.m, y.e - e)
    IN  IF x.neg # y.neg
        THEN RoundToNumber([neg |-> x.neg, m |-> BitsAdd(mx, my, 0), e |-> e])
        ELSE IF BitsLess(mx, my)
        THEN RoundToNumber([neg |-> ~x.neg, m |-> BitsSub(my, mx, 0), e |-> e])
        ELSE RoundToNumber([neg |-> x.neg, m |-> BitsSub(mx, my, 0), e |-> e])

RECURSIVE Log2(_)
Log2(n) == IF n <= 1 THEN 0 ELSE 1 + Log2(n \div 2)

RECURSIVE BitsTimes(_, _)
BitsTimes(n, m) == IF n <= 0 THEN <<>> ELSE BitsAdd(m, BitsTimes(n - 1, m), 0)

\* c * x for a quotient c = num/den whose Number is exact: den a power of two.
NumberTimes(c, x) ==
    RoundToNumber([neg |-> x.neg /\ c.num # 0,
                   m   |-> BitsTimes(c.num, x.m),
                   e   |-> x.e - Log2(c.den)])

\* x <= y
NumberLessEq(x, y) ==
    LET e  == IF x.e < y.e THEN x.e ELSE y.e
        mx == ShiftLeft(x.m, x.e - e)
        my == ShiftLeft(y.m, y.e - e)
    IN  IF x.neg # y.neg THEN x.neg
        ELSE IF x.neg THEN ~BitsLess(mx, my)
        ELSE ~BitsLess(my, mx)

calculateAdaptiveThreshold(complexity, options) ==
    IF ~options.adaptiveThresholds THEN options.maxThresholdSingleTerm
    ELSE LET range == NumberMinus(options.maxThresholdSingleTerm,
                                  options.minThresholdMultiTerm)
         IN  NumberMinus(options.maxThresholdSingleTerm,
                         NumberTimes(complexity, range))

\* The words queries are written with: a short word, a stop word with a
\* capital, and two words of five letters.
Words ==
    { <<"a","i">>, <<"T","h","e">>, <<"g","r","a","p","h">>, <<"q","u","e","r","y">> }

\* How the words of a query are laid out: the whitespace before the first
\* word, between two words, and after the last one.
Layouts ==
    { [lead |-> <<>>,     sep |-> <<" ">>,       trail |-> <<>>],
      [lead |-> <<"\t">>, sep |-> <<" ", "\t">>, trail |-> <<" ">>] }

RECURSIVE Between(_, _)
Between(words, sep) ==
    IF words = <<>> THEN <<>>
    ELSE IF Len(words) = 1 THEN words[1]
    ELSE words[1] \o sep \o Between(Tail(words), sep)

PreprocessorQueries ==
    { layout.lead \o Between(words, layout.sep) \o layout.trail :
        words \in SeqsUpTo(Words, MaxTerms), layout \in Layouts }

\* The options a QueryPreprocessor is constructed with; thresholds in tenths.
PreprocessorOptions ==
    [ enableDecomposition   : {"absent", "false"},
      complexityThreshold   : {Undefined, 1, 2, 5},
      adaptiveThresholds    : {"absent", "false"},
      minThresholdMultiTerm : {Undefined, 1},
      maxThresholdSingleTerm : {Undefined, 9} ]

\* constructor: every option left out takes its default.
QueryPreprocessorOptions(options) ==
    [ enableDecomposition   |-> options.enableDecomposition # "false",
      complexityThreshold   |-> IF options.complexityThreshold = Undefined
                                THEN 3 ELSE options.complexityThreshold,
      adaptiveThresholds    |-> options.adaptiveThresholds # "false",
      minThresholdMultiTerm |-> NumberOfTenths(
                                    IF options.minThresholdMultiTerm = Undefined
                                    THEN 4 ELSE options.minThresholdMultiTerm),
      maxThresholdSingleTerm |-> NumberOfTenths(
                                    IF options.maxThresholdSingleTerm = Undefined
                                    THEN 6 ELSE options.maxThresholdSingleTerm) ]

analyze(query, options) ==
    LET normalizedQuery == normalizeQuery(query)
        terms == extractTerms(normalizedQuery)
        complexity == analyzeComplexity(terms, options)
    IN  [ originalQuery   |-> query,
          normalizedQuery |-> normalizedQuery,
          terms           |-> terms,
          subQueries      |-> IF options.enableDecomposition
                              THEN decomposeQuery(normalizedQuery, terms)
                              ELSE <<normalizedQuery>>,
          complexity      |-> complexity,
          recommendedThreshold |-> calculateAdaptiveThreshold(complexity, options),
          useMultiVector  |-> shouldUseMultiVector(terms),
          keyTerms        |-> extractKeyTerms(terms) ]

NewQueryPreprocessor(options) ==
    /\ qp = NoAnalysis
  /\ gen = NoBatch
  /\ validator = NoCheck
    /\ qp' = [at |-> "constructed", options |-> QueryPreprocessorOptions(options)]
    /\ UNCHANGED <<cfg, file, pgraph, phist, vsReady, vectors, last, calls, base, embedded, jobs, svc, tr, factory, tool, gen, validator>>

Analyze(query) ==
    /\ qp.at = "constructed"
    /\ qp' = [at |-> "analyzed", options |-> qp.options,
              analysis |-> analyze(query, qp.options)]
    /\ UNCHANGED <<cfg, file, pgraph, phist, vsReady, vectors, last, calls, base, embedded, jobs, svc, tr, factory, tool, gen, validator>>

NextPreprocessor ==
    \/ \E options \in PreprocessorOptions : NewQueryPreprocessor(options)
    \/ \E query \in PreprocessorQueries : Analyze(query)

SpecPreprocessor == InitRelations /\ [][NextPreprocessor]_vars

\* p <= q for quotients with positive denominators
QuotientLessEq(p, q) == p.num * q.den <= q.num * p.den

\* C26: the complexity is 0 for at most one term, otherwise 1 for at least
\* complexityThreshold terms, otherwise (|terms|-1)/(complexityThreshold-1);
\* it is computed without a division by zero, lies in [0,1] and does not
\* decrease when a term is added to the query.
C26_ComplexityByTermCount ==
    qp.at = "analyzed" =>
        LET n == Len(qp.analysis.terms)
            t == qp.options.complexityThreshold
            c == qp.analysis.complexity
        IN  /\ c.den > 0
            /\ n <= 1 => c = Zero
            /\ (n > 1 /\ n >= t) => c = One
            /\ (n > 1 /\ n < t) => c.num * (t - 1) = (n - 1) * c.den
            /\ QuotientLessEq(Zero, c) /\ QuotientLessEq(c, One)
            /\ \A word \in Words :
                 LET more == analyzeComplexity(
                                 Append(qp.analysis.terms, ToLowerCase(word)), qp.options)
                 IN  more.den > 0 /\ QuotientLessEq(c, more)

\* A query of two terms analysed under a threshold of five: the interpolation
\* (2-1)/(5-1) is the complexity.
C26_Interpolated ==
    /\ qp.at = "analyzed"
    /\ Len(qp.analysis.terms) = 2
    /\ qp.options.complexityThreshold = 5
    /\ qp.analysis.complexity = Divide(1, 4)

\* C27: the recommended threshold is maxThresholdSingleTerm when adaptive
\* thresholds are disabled; otherwise it lies between minThresholdMultiTerm
\* and maxThresholdSingleTerm, is the maximum for a query of at most one
\* term, the minimum for a query of at least complexityThreshold terms, and
\* does not increase when a term is added to the query.
C27_ThresholdInterpolated ==
    qp.at = "analyzed" =>
        LET n == Len(qp.analysis.terms)
            t == qp.options.complexityThreshold
            r == qp.analysis.recommendedThreshold
            min == qp.options.minThresholdMultiTerm
            max == qp.options.maxThresholdSingleTerm
        IN  /\ ~qp.options.adaptiveThresholds => r = max
            /\ NumberLessEq(min, r) /\ NumberLessEq(r, max)
            /\ n <= 1 => r = max
            /\ (qp.options.adaptiveThresholds /\ n > 1 /\ n >= t) => r = min
            /\ \A word \in Words :
                 LET more == Append(qp.analysis.terms, ToLowerCase(word))
                 IN  NumberLessEq(
                         calculateAdaptiveThreshold(
                             analyzeComplexity(more, qp.options), qp.options), r)

\* The position of the first occurrence of x in list.
FirstIndex(list, x) == CHOOSE i \in 1..Len(list) : list[i] = x /\ \A j \in 1..(i - 1) : list[j] # x

\* C28: with decomposition enabled and at least 3 terms the sub-queries are
\* the normalized query, then the adjacent bigrams in order, then the terms
\* of length >= 5 in order, each kept once at its first occurrence; in every
\* other case they are the normalized query alone.  The first sub-query is
\* always the normalized query and no sub-query occurs twice.
C28_Decomposition ==
    qp.at = "analyzed" =>
        LET a == qp.analysis
            terms == a.terms
            sub == a.subQueries
            candidates ==
                <<a.normalizedQuery>>
                \o [i \in 1..(Len(terms) - 1) |-> terms[i] \o <<" ">> \o terms[i + 1]]
                \o SelectSeq(terms, LAMBDA term : Len(term) >= 5)
        IN  /\ sub[1] = a.normalizedQuery
            /\ \A i, j \in 1..Len(sub) : i # j => sub[i] # sub[j]
            /\ IF qp.options.enableDecomposition /\ Len(terms) >= 3
               THEN /\ {sub[i] : i \in 1..Len(sub)}
                         = {candidates[i] : i \in 1..Len(candidates)}
                    /\ \A i, j \in 1..Len(sub) :
                         i < j => FirstIndex(candidates, sub[i]) < FirstIndex(candidates, sub[j])
               ELSE sub = <<a.normalizedQuery>>

\* A query of three equal long terms: its two equal bigrams and its three
\* equal terms are each kept once.
C28_DuplicatesRemoved ==
    /\ qp.at = "analyzed"
    /\ qp.options.enableDecomposition
    /\ qp.analysis.terms = << <<"g","r","a","p","h">>, <<"g","r","a","p","h">>, <<"g","r","a","p","h">> >>
    /\ Len(qp.analysis.subQueries) = 3

C30_Normalization ==
    qp.at = "analyzed" =>
        LET query == qp.analysis.originalQuery
            nq == qp.analysis.normalizedQuery
            terms == qp.analysis.terms
            Letters(s) == SelectSeq(s, LAMBDA c : c \notin Whitespace)
            Runs(s) == Cardinality({i \in 1..Len(s) :
                           s[i] \notin Whitespace
                           /\ (i = 1 \/ s[i - 1] \in Whitespace)})
        IN  /\ nq # <<>> => nq[1] \notin Whitespace /\ nq[Len(nq)] \notin Whitespace
            /\ \A i \in 1..Len(nq) :
                 /\ nq[i] \in Whitespace => nq[i] = " " /\ nq[i + 1] \notin Whitespace
                 /\ nq[i] \notin {"T", "C"}
            /\ Letters(nq) = [i \in 1..Len(Letters(query)) |->
                                 IF Letters(query)[i] = "T" THEN "t" ELSE Letters(query)[i]]
            /\ Runs(nq) = Runs(query)
            /\ normalizeQuery(nq) = nq
            /\ Len(terms) = Runs(query)
            /\ \A i \in 1..Len(terms) :
                 terms[i] # <<>> /\ \A k \in 1..Len(terms[i]) : terms[i][k] \notin Whitespace
            /\ JoinSpace(terms) = nq
            /\ (\A i \in 1..Len(query) : query[i] \in Whitespace) => terms = <<>>

\* "\tThe \tgraph ": a query with a tab in front, a space and a tab between
\* its words, a space behind and a capital, normalized to "the graph".
C30_PaddedQuery ==
    /\ qp.at = "analyzed"
    /\ qp.analysis.originalQuery =
         <<"\t", "T","h","e", " ", "\t", "g","r","a","p","h", " ">>
    /\ qp.analysis.normalizedQuery = <<"t","h","e", " ", "g","r","a","p","h">>
    /\ qp.analysis.terms = << <<"t","h","e">>, <<"g","r","a","p","h">> >>

(***************************************************************************)
(* OllamaEmbeddingService.generateEmbeddings: one request after the other. *)
(***************************************************************************)
MaxTexts == 3

Texts == {"a", "b"}

\* What a POST to /api/embeddings comes back with: a response whose
\* embedding is or is not an array, or an error of the HTTP client.
PostOutcomes ==
  {[failure |-> "none", response |-> r] :
     r \in {x \in Responses : ~x.isArray \/ x.embedding \in {<<1, 0>>, <<0, 1>>}}}
    \cup {[failure |-> f, response |-> [isArray |-> FALSE, embedding |-> <<>>]] :
            f \in {"ECONNREFUSED", "404", "other"}}

\* generateEmbedding after the POST came back: the client's errors are
\* rethrown with a message of their own, a response is handled as before.
OllamaAfterPost(outcome) ==
  IF outcome.failure = "ECONNREFUSED" THEN [err |-> "cannot connect", vector |-> NoVector]
  ELSE IF outcome.failure = "404" THEN [err |-> "model not found", vector |-> NoVector]
  ELSE IF outcome.failure = "other" THEN [err |-> "Ollama API error", vector |-> NoVector]
  ELSE OllamaGenerateEmbedding(outcome.response)

\* generateEmbeddings(texts) entered: nothing sent, nothing collected.
GenerateEmbeddings(texts) ==
  /\ gen = NoBatch
  /\ validator = NoCheck
  /\ gen' = [at |-> "loop", texts |-> texts, requests |-> <<>>, outstanding |-> 0,
             embeddings |-> <<>>, err |-> "none"]
  /\ UNCHANGED <<cfg, file, pgraph, phist, vsReady, vectors, last, calls, base, embedded, jobs, svc, tr, factory, tool, qp, validator>>

\* The loop without its await: the next request goes out while one is in flight.
MayPostEagerly(g) == g.at = "loop" /\ Len(g.requests) < Len(g.texts)

\* for (i...) { await this.generateEmbedding(texts[i]) }: the next text is
\* posted when the previous request has come back.
MayPost(g) == g.at = "loop" /\ g.outstanding = 0 /\ Len(g.embeddings) < Len(g.texts)

PostEmbeddingRequest ==
  /\ gen # NoBatch
  /\ MayPost(gen)
  /\ gen' = [gen EXCEPT !.requests = Append(@, [prompt |-> gen.texts[Len(gen.requests) + 1],
                                                 result |-> NoVector, err |-> "pending"]),
                        !.outstanding = @ + 1]
  /\ UNCHANGED <<cfg, file, pgraph, phist, vsReady, vectors, last, calls, base, embedded, jobs, svc, tr, factory, tool, qp, validator>>

\* The oldest request in flight comes back: its embedding is pushed, or its
\* error is logged and rethrown, which ends generateEmbeddings.
ReceiveEmbeddingResponse(outcome) ==
  /\ gen # NoBatch
  /\ gen.at = "loop" /\ gen.outstanding > 0
  /\ LET k == Len(gen.requests) - gen.outstanding + 1
         out == OllamaAfterPost(outcome)
     IN  gen' = [gen EXCEPT !.requests[k] = [@ EXCEPT !.result = out.vector, !.err = out.err],
                            !.outstanding = @ - 1,
                            !.embeddings = IF out.err = "none" THEN Append(@, out.vector) ELSE @,
                            !.at = IF out.err = "none" THEN "loop" ELSE "rejected",
                            !.err = out.err]
  /\ UNCHANGED <<cfg, file, pgraph, phist, vsReady, vectors, last, calls, base, embedded, jobs, svc, tr, factory, tool, qp, validator>>

\* The loop is over: the embeddings are returned.
ReturnEmbeddings ==
  /\ gen # NoBatch
  /\ gen.at = "loop" /\ gen.outstanding = 0 /\ Len(gen.embeddings) = Len(gen.texts)
  /\ gen' = [gen EXCEPT !.at = "resolved"]
  /\ UNCHANGED <<cfg, file, pgraph, phist, vsReady, vectors, last, calls, base, embedded, jobs, svc, tr, factory, tool, qp, validator>>

NextBatch ==
  \/ \E texts \in SeqsUpTo(Texts, MaxTexts) : GenerateEmbeddings(texts)
  \/ PostEmbeddingRequest
  \/ \E outcome \in PostOutcomes : ReceiveEmbeddingResponse(outcome)
  \/ ReturnEmbeddings

SpecBatch == InitRelations /\ [][NextBatch]_vars

\* C31: generateEmbeddings sends one request per text, in input order, never
\* two at once; when it resolves it returns one embedding per text in input
\* order; when a request fails it sends no request for a later text and
\* rejects with that request's error.
C31_SequentialBatch ==
  /\ [](gen # NoBatch =>
          /\ gen.outstanding <= 1
          /\ Len(gen.requests) <= Len(gen.texts)
          /\ \A k \in 1..Len(gen.requests) :
               /\ gen.requests[k].prompt = gen.texts[k]
               /\ k < Len(gen.requests) => gen.requests[k].err = "none"
          /\ gen.at = "resolved" =>
               /\ Len(gen.requests) = Len(gen.texts)
               /\ Len(gen.embeddings) = Len(gen.texts)
               /\ \A k \in 1..Len(gen.texts) :
                    gen.requests[k].err = "none" /\ gen.embeddings[k] = gen.requests[k].result
          /\ gen.at = "rejected" =>
               /\ gen.requests[Len(gen.requests)].err \notin {"none", "pending"}
               /\ gen.err = gen.requests[Len(gen.requests)].err)
  /\ [][(gen # NoBatch /\ gen.at \in {"rejected", "resolved"}) => gen' = gen]_vars

\* The second of three texts failed: two requests were sent, the third never.
C31_StoppedAtFirstFailure ==
  /\ gen # NoBatch
  /\ gen.at = "rejected"
  /\ Len(gen.texts) = 3
  /\ Len(gen.requests) = 2
  /\ gen.requests[1].err = "none"

(***************************************************************************)
(* KnowledgeGraphManager.updateEntityEmbedding                             *)
(***************************************************************************)
\* What the call meets: whether the provider has the optional
\* updateEntityEmbedding method, whether that write, the initialization of
\* the vector store and addVector succeed.
EmbeddingEnvs ==
  [hasUpdate : BOOLEAN, storageOK : BOOLEAN, vsInitOK : BOOLEAN, addVectorOK : BOOLEAN]

\* updateEntityEmbedding(entityName, embedding): the entity is read; the
\* provider's updateEntityEmbedding is awaited when the provider has one;
\* then the vector store is obtained and addVector awaited, a failure of
\* either logged and rethrown.
UpdateEntityEmbeddingCall(g, entityName, env) ==
  LET stored == [embedded EXCEPT ![entityName] =
                   [has |-> TRUE, text |-> PrepareEntityText(EntityData(g, entityName))]]
      result(err, writes, emb, vecs, ready) ==
        [err |-> err, writes |-> writes, embedded |-> emb, vectors |-> vecs, vsReady |-> ready]
  IN  IF ~cfg.provider
      THEN result("storage provider required", <<>>, embedded, vectors, vsReady)
      ELSE IF entityName \notin EntityNames(g)
      THEN result("entity not found", <<>>, embedded, vectors, vsReady)
      ELSE IF env.hasUpdate /\ ~env.storageOK
      THEN result("updateEntityEmbedding rejected", <<>>, embedded, vectors, vsReady)
      ELSE LET emb  == IF env.hasUpdate THEN stored ELSE embedded
               done == IF env.hasUpdate THEN <<"storage">> ELSE <<>>
           IN  IF ~EnsureVectorStore(env.vsInitOK)
               THEN result("vector store not initialized", done, emb, vectors, vsReady)
               ELSE IF ~env.addVectorOK
               THEN result("addVector rejected", done, emb, vectors, TRUE)
               ELSE result("none", Append(done, "vector"), emb,
                           vectors \cup {entityName}, TRUE)

UpdateEntityEmbedding(entityName, env) ==
  /\ last = NoCall
  /\ LET out == UpdateEntityEmbeddingCall(CurrentGraph, entityName, env)
     IN  /\ embedded' = out.embedded
         /\ vectors' = out.vectors
         /\ vsReady' = out.vsReady
         /\ last' = [NoCall EXCEPT !.op = "updateEntityEmbedding",
                                   !.arg = [entityName |-> entityName, env |-> env],
                                   !.ok = out.err = "none", !.err = out.err,
                                   !.ret = out.writes, !.pre = CurrentGraph,
                                   !.preVectors = vectors]
  /\ UNCHANGED <<cfg, file, pgraph, phist, calls, base, jobs, svc, tr, factory, tool, qp, gen, validator>>

NextUpdateEmbedding ==
  \/ \E batch \in SeqsUpTo(EntityInputs({<<>>}, {FALSE}), 1) : CreateEntities(batch, NoEnv)
  \/ \E entityName \in Names, env \in EmbeddingEnvs : UpdateEntityEmbedding(entityName, env)
  \/ Acknowledge

SpecUpdateEmbedding == InitEmbedding /\ [][NextUpdateEmbedding]_vars

\* C32: updateEntityEmbedding for an existing entity writes the embedding to
\* the storage provider, then to the vector store, and succeeds only if both
\* writes succeeded; a failure of the vector store is the error of the call
\* while the storage write stays; for an entity that does not exist the call
\* fails without a write.
C32_BothWritesOrError ==
  last.op = "updateEntityEmbedding" =>
    LET n == last.arg.entityName
    IN  /\ last.ok => last.ret = <<"storage", "vector">> /\ embedded[n].has /\ n \in vectors
        /\ (n \in EntityNames(last.pre) /\ last.err \in {"vector store not initialized", "addVector rejected"}) =>
             last.ret = <<"storage">> /\ embedded[n].has
        /\ n \notin EntityNames(last.pre) =>
             ~last.ok /\ last.ret = <<>> /\ vectors = last.preVectors

(***************************************************************************)
(* Batches with an item that names a missing entity.                       *)
(***************************************************************************)
\* Relations of a request from either name to one entity.
AnyRelationInputs == [from : Names, to : {"a"}, relationType : {"r"}, strength : {1}]

NextBatches ==
  \/ \E batch \in SeqsUpTo(EntityInputs({<<>>}, {FALSE}), 1) : CreateEntities(batch, NoEnv)
  \/ \E relations \in SeqsUpTo(AnyRelationInputs, MaxBatch) : CreateRelations(relations)
  \/ \E observations \in SeqsUpTo([entityName : Names, contents : {<<"x">>}], MaxBatch) :
       AddObservations(observations, NoEnv)
  \/ Acknowledge

SpecBatches == InitRelations /\ [][NextBatches]_vars

\* C33: on the file-backed store a createRelations batch with an item whose
\* from or to entity is not stored, and an addObservations batch with an item
\* whose entity is not stored, throw and leave the stored graph as it was,
\* whatever the other items of the batch are.
C33_BatchAllOrNothing ==
  ~cfg.provider =>
    /\ (/\ last.op = "createRelations"
        /\ \E i \in DOMAIN last.arg :
             last.arg[i].from \notin EntityNames(last.pre)
               \/ last.arg[i].to \notin EntityNames(last.pre)) =>
         ~last.ok /\ CurrentGraph = last.pre
    /\ (/\ last.op = "addObservations"
        /\ \E i \in DOMAIN last.arg : last.arg[i].entityName \notin EntityNames(last.pre)) =>
         ~last.ok /\ CurrentGraph = last.pre

\* A rejected createRelations batch whose first item was valid and new.
C33_ValidItemNotStored ==
  /\ ~cfg.provider
  /\ last.op = "createRelations" /\ ~last.ok
  /\ Len(last.arg) = 2
  /\ last.arg[1].from \in EntityNames(last.pre) /\ last.arg[1].to \in EntityNames(last.pre)
  /\ RelationKey(last.arg[1]) \notin RelationKeys(last.pre)
  /\ last.arg[2].from \notin EntityNames(last.pre)
  /\ CurrentGraph = last.pre

(***************************************************************************)
(* saveGraph followed by loadGraph on the memory file.                     *)
(***************************************************************************)
\* Entities with and without the optional embedding, relations with and
\* without the optional strength.
SavedEntities ==
  [name : Names, entityType : {"t"}, observations : {<<"x">>}]
    \cup [name : Names, entityType : {"t"}, observations : {<<"x">>}, embedding : {<<1, 0>>}]

SavedRelations ==
  [from : {"a"}, to : Names, relationType : {"r"}]
    \cup [from : {"a"}, to : Names, relationType : {"r"}, strength : {1}]

\* await this.saveGraph(graph) on the file-backed store
SaveGraphCall(graph) ==
  /\ ~cfg.provider
  /\ last = NoCall
  /\ file' = SaveGraph(graph)
  /\ last' = [NoCall EXCEPT !.op = "saveGraph", !.arg = graph, !.pre = graph]
  /\ UNCHANGED <<cfg, pgraph, phist, vsReady, vectors, calls, base, embedded, jobs, svc, tr, factory, tool, qp, gen, validator>>

\* await this.loadGraph() after it
LoadGraphCall ==
  /\ ~cfg.provider
  /\ last.op = "saveGraph"
  /\ last' = [last EXCEPT !.op = "loadGraph", !.ret = LoadGraph(file)]
  /\ UNCHANGED <<cfg, file, pgraph, phist, vsReady, vectors, calls, base, embedded, jobs, svc, tr, factory, tool, qp, gen, validator>>

NextRoundTrip ==
  \/ \E entities \in SeqsUpTo(SavedEntities, MaxBatch),
        relations \in SeqsUpTo(SavedRelations, MaxBatch) :
       SaveGraphCall([entities |-> entities, relations |-> relations])
  \/ LoadGraphCall

SpecRoundTrip == InitConcurrent /\ [][NextRoundTrip]_vars

\* C34: loadGraph after saveGraph(graph) returns the entities and the
\* relations of graph, in their order and without the type key, for every
\* graph: the empty one, one entity alone and one relation alone included.
C34_SaveLoadRoundTrip ==
  last.op = "loadGraph" =>
    /\ last.ret.entities = last.arg.entities
    /\ last.ret.relations = last.arg.relations
    /\ \A i \in DOMAIN last.ret.entities : "type" \notin DOMAIN last.ret.entities[i]
    /\ \A i \in DOMAIN last.ret.relations : "type" \notin DOMAIN last.ret.relations[i]

\* A graph of one relation and no entity was saved and loaded: the file was
\* one line, parsed as a whole.
C34_SingleRelation ==
  /\ last.op = "loadGraph"
  /\ Len(file) = 1
  /\ last.arg.entities = <<>>
  /\ Len(last.ret.relations) = 1
  /\ "strength" \in DOMAIN last.ret.relations[1]

(***************************************************************************)
(* The route search takes.                                                 *)
(***************************************************************************)
\* search(query, options), with what it met kept next to the request.
SearchRouted(query, options, env) ==
  Commit("search", [query |-> query, options |-> options, env |-> env], CurrentGraph,
         SearchCall(CurrentGraph, query, options, env), {}, {}, 0)

NextRouting ==
  \/ \E batch \in SeqsUpTo(EntityInputs({<<>>}, {TRUE}), 1) : CreateEntities(batch, AllGoodEnv)
  \/ \E query \in Queries, options \in SearchOptions, env \in SearchEnvs :
       SearchRouted(query, options, env)
  \/ Acknowledge

SpecRouting == InitSearch /\ [][NextRouting]_vars

\* C35: a search that asks for neither semantic nor hybrid search returns the
\* result of searchNodes(query) and generates no embedding; a hybrid request
\* is handled as the semantic request it implies; and a semantic or hybrid
\* request under a provider without semanticSearch, or without an embedding
\* service, returns the result of searchNodes(query).
C35_SearchRouting ==
  last.op = "search" =>
    LET options == last.arg.options
        env == last.arg.env
        keyword == SearchNodes(last.pre, last.arg.query)
        semantic == options.semanticSearch \/ options.hybridSearch
    IN  /\ ~semantic =>
             last.ok /\ last.ret.graph = keyword /\ ~last.ret.generated
        /\ options.hybridSearch =>
             /\ last.ret = SearchResult(last.pre, last.arg.query,
                                        [semanticSearch |-> TRUE, hybridSearch |-> FALSE], env).ret
             /\ (cfg.provider /\ cfg.jobManager /\ env.hasSemanticSearch /\ env.hasService
                   /\ env.embedOK /\ env.semOK) => last.ret.via = "semantic"
        /\ (semantic /\ ((cfg.provider /\ ~env.hasSemanticSearch)
                           \/ ~(cfg.jobManager /\ env.hasService))) =>
             last.ok /\ last.ret.graph = keyword /\ ~last.ret.generated

\* A request for hybrid search alone that the provider answered with its
\* semantic search.
C35_HybridSearchedSemantically ==
  /\ last.op = "search" /\ last.ok
  /\ last.arg.options.hybridSearch /\ ~last.arg.options.semanticSearch
  /\ last.ret.via = "semantic"
  /\ last.ret.graph.entities # <<>>

(***************************************************************************)
(* TemporalRelationValidator on arbitrary objects.                         *)
(***************************************************************************)
\* The values a property of the object may hold: absent, a number, the
\* number NaN, or a value of another type.
JsUndefined == [t |-> "undefined", v |-> 0]
JsNaN == [t |-> "number", v |-> Undefined]
JsText == [t |-> "string", v |-> 0]
JsNumber(n) == [t |-> "number", v |-> n]

\* typeof x, x !== undefined
Typeof(x) == x.t
Defined(x) == x.t # "undefined"

\* a < b, a > b and a <= b on numbers: false when either is NaN.
IsNaN(x) == x.t = "number" /\ x.v = Undefined
Less(a, b) == ~IsNaN(a) /\ ~IsNaN(b) /\ a.v < b.v
Greater(a, b) == Less(b, a)
LessEq(a, b) == ~IsNaN(a) /\ ~IsNaN(b) /\ a.v <= b.v

\* RelationValidator.isRelation(obj): what it answered for the object.
IsRelation(obj) == obj.relation

\* TemporalRelationValidator.isTemporalRelation(obj)
IsTemporalRelation(obj) ==
  IF ~IsRelation(obj) THEN FALSE
  ELSE IF \/ Typeof(obj.createdAt) # "number"
          \/ Typeof(obj.updatedAt) # "number"
          \/ Typeof(obj.version) # "number" THEN FALSE
  ELSE IF Defined(obj.validFrom) /\ Typeof(obj.validFrom) # "number" THEN FALSE
  ELSE IF Defined(obj.validTo) /\ Typeof(obj.validTo) # "number" THEN FALSE
  ELSE IF Defined(obj.changedBy) /\ Typeof(obj.changedBy) # "string" THEN FALSE
  ELSE TRUE

\* TemporalRelationValidator.hasValidTimeRange(obj)
HasValidTimeRange(obj) ==
  IF ~IsTemporalRelation(obj) THEN FALSE
  ELSE IF Defined(obj.validFrom) /\ Defined(obj.validTo)
  THEN LessEq(obj.validFrom, obj.validTo)
  ELSE TRUE

\* TemporalRelationValidator.isCurrentlyValid(obj, now) for any object.
IsCurrentlyValidObject(obj, now) ==
  IF ~IsTemporalRelation(obj) THEN FALSE
  ELSE IF Defined(obj.validFrom) /\ Less(now, obj.validFrom) THEN FALSE
  ELSE IF Defined(obj.validTo) /\ Greater(now, obj.validTo) THEN FALSE
  ELSE TRUE

Timestamps == {JsNumber(n) : n \in 0..MaxTime} \cup {JsNaN}

Objects ==
  [relation : BOOLEAN,
   createdAt : {JsNumber(0), JsUndefined},
   updatedAt : {JsNumber(0), JsText},
   version : {JsNumber(1), JsUndefined},
   validFrom : Timestamps \cup {JsUndefined, JsText},
   validTo : Timestamps \cup {JsUndefined, JsText},
   changedBy : {JsUndefined, JsText, JsNumber(0)}]

\* The object and the time are handed to the validator.
AskValidator(obj, now) ==
  /\ validator = NoCheck
  /\ validator' = [at |-> "asked", obj |-> obj, now |-> now]
  /\ UNCHANGED <<cfg, file, pgraph, phist, vsReady, vectors, last, calls, base, embedded, jobs, svc, tr, factory, tool, qp, gen>>

\* hasValidTimeRange(obj) and isCurrentlyValid(obj, now) answer.
AnswerValidator ==
  /\ validator.at = "asked"
  /\ validator' = [at |-> "answered", obj |-> validator.obj, now |-> validator.now,
                   hasValidTimeRange |-> HasValidTimeRange(validator.obj),
                   isCurrentlyValid |-> IsCurrentlyValidObject(validator.obj, validator.now)]
  /\ UNCHANGED <<cfg, file, pgraph, phist, vsReady, vectors, last, calls, base, embedded, jobs, svc, tr, factory, tool, qp, gen>>

NextValidator ==
  \/ \E obj \in Objects, now \in Timestamps : AskValidator(obj, now)
  \/ AnswerValidator

SpecValidator == InitRelations /\ [][NextValidator]_vars

\* C36: hasValidTimeRange(obj) is true exactly when obj is a temporal
\* relation whose validFrom is at most its validTo when both are set, and
\* isCurrentlyValid(obj, now) implies hasValidTimeRange(obj) for every now.
C36_ValidImpliesValidRange ==
  validator.at = "answered" =>
    LET obj == validator.obj
    IN  /\ validator.hasValidTimeRange <=>
             /\ IsTemporalRelation(obj)
             /\ (Defined(obj.validFrom) /\ Defined(obj.validTo)) =>
                  LessEq(obj.validFrom, obj.validTo)
        /\ validator.isCurrentlyValid => validator.hasValidTimeRange

\* The first half of C36 alone, and the second half for numbers other than
\* NaN.
C36_ExceptNaN ==
  validator.at = "answered" =>
    LET obj == validator.obj
    IN  /\ validator.hasValidTimeRange <=>
             /\ IsTemporalRelation(obj)
             /\ (Defined(obj.validFrom) /\ Defined(obj.validTo)) =>
                  LessEq(obj.validFrom, obj.validTo)
        /\ (~IsNaN(validator.now) /\ ~IsNaN(obj.validFrom) /\ ~IsNaN(obj.validTo)) =>
             (validator.isCurrentlyValid => validator.hasValidTimeRange)

\* A relation with finite bounds found currently valid.
C36_ValidWithinBounds ==
  /\ validator.at = "answered"
  /\ validator.isCurrentlyValid
  /\ ~IsNaN(validator.now)
  /\ validator.obj.validFrom = JsNumber(1)
  /\ validator.obj.validTo = JsNumber(2)

(***************************************************************************)
(* createFromEnvironment without a usable configuration.                   *)
(***************************************************************************)
Services == {"default", "ollama", "azure", "openai"}

\* Neither AZURE_OPENAI_API_KEY nor OPENAI_API_KEY is set.
NoCredentials(e) == ~e.azureKey /\ ~e.openaiKey

\* The provider named by EMBEDDING_PROVIDER lacks part of its configuration.
RequestedIncomplete(e) ==
  \/ e.provider = "openai" /\ ~e.openaiKey
  \/ e.provider = "azure" /\ ~AzureComplete(e)

\* C37 as stated: createFromEnvironment returns a service for every
\* environment, and the default service whenever MOCK_EMBEDDINGS is 'true',
\* whenever the requested provider's configuration is incomplete, and
\* whenever no credentials are present.
C37_DefaultWithoutConfiguration ==
  factory.at = "created" =>
    LET e == factory.env
    IN  /\ factory.service \in Services
        /\ e.mock => factory.service = "default"
        /\ RequestedIncomplete(e) => factory.service = "default"
        /\ NoCredentials(e) => factory.service = "default"

\* C37, amended: createFromEnvironment returns a service for every
\* environment, and the default service whenever MOCK_EMBEDDINGS is 'true',
\* whenever the requested provider's configuration is incomplete, and
\* whenever no credentials are present and Ollama is not the requested
\* provider; without the mock flag and without credentials a request for
\* Ollama creates the Ollama service if its constructor succeeds.
C37_DefaultUnlessOllama ==
  factory.at = "created" =>
    LET e == factory.env
    IN  /\ factory.service \in Services
        /\ e.mock => factory.service = "default"
        /\ RequestedIncomplete(e) => factory.service = "default"
        /\ (NoCredentials(e) /\ e.provider # "ollama") => factory.service = "default"
        /\ (NoCredentials(e) /\ e.provider = "ollama" /\ ~e.mock) =>
             factory.service = IF e.ollamaOK THEN "ollama" ELSE "default"

\* The mock flag set next to a request for Ollama and complete credentials
\* of both other providers: the default service was returned.
C37_MockOverridesAll ==
  /\ factory.at = "created"
  /\ factory.env.mock /\ factory.env.provider = "ollama"
  /\ AzureComplete(factory.env) /\ factory.env.openaiKey
  /\ factory.env.ollamaOK /\ factory.env.azureOK /\ factory.env.openaiOK
  /\ factory.service = "default"
====
